---- MODULE Spec2Model ----
(***************************************************************************)
(* A model of compas' subdivision operators (compas/topology/              *)
(* subdivision.py) and of the remeshing optimiser (compas/datastructures/  *)
(* mesh/algorithms/optimisation.py).                                       *)
(*                                                                         *)
(* Mesh objects live in a heap (object identity matters: the operators     *)
(* copy, mutate and return references).  A mesh value is a record          *)
(*   vertex   : key -> <<x, y, z>>         (coordinates, exact rationals)  *)
(*   face     : fkey -> sequence of keys   (the face's vertex cycle)       *)
(*   halfedge : <<u, v>> -> fkey | None    (directed pair -> face)         *)
(*   vmax, fmax : the last vertex / face key handed out                    *)
(* Dictionaries are iterated in ascending key order.                       *)
(***************************************************************************)
EXTENDS Integers, Sequences, FiniteSets, TLC

VARIABLES heap, orig, pc, call, result, raised, opt, xf

vars == <<heap, orig, pc, call, result, raised, opt, xf>>

\* Python's None, where a face key or a reference is expected.
None == -1

\* No exception raised.
NoExc == "none"

\* The reference of the caller's mesh.
InputRef == 1

-----------------------------------------------------------------------------
(* Exact rational arithmetic standing for Python floats: <<n, d>>, d > 0.  *)

Abs(i) == IF i < 0 THEN -i ELSE i

RECURSIVE GCD(_, _)
GCD(a, b) == IF b = 0 THEN a ELSE GCD(b, a % b)

\* n / d in lowest terms, the denominator positive (g is their gcd).
Reduced(n, d, g) ==
    IF d < 0 THEN <<(-n) \div g, (-d) \div g>> ELSE <<n \div g, d \div g>>

Q(n, d) == Reduced(n, d, GCD(Abs(n), Abs(d)))

QI(i) == <<i, 1>>

\* Sums and products cancel common factors before they multiply.
AddOver(a, b, g) ==
    Q(a[1] * (b[2] \div g) + b[1] * (a[2] \div g), (a[2] \div g) * b[2])

QAdd(a, b) == AddOver(a, b, GCD(a[2], b[2]))

QNeg(a) == <<-a[1], a[2]>>
QSub(a, b) == QAdd(a, QNeg(b))

MulOver(a, b, g1, g2) ==
    Q((a[1] \div g1) * (b[1] \div g2), (a[2] \div g2) * (b[2] \div g1))

QMul(a, b) == MulOver(a, b, GCD(Abs(a[1]), b[2]), GCD(Abs(b[1]), a[2]))

QDiv(a, b) == QMul(a, IF b[1] < 0 THEN <<-b[2], -b[1]>> ELSE <<b[2], b[1]>>)

QLt(a, b) ==
    LET g == GCD(a[2], b[2])
    IN  a[1] * (b[2] \div g) < b[1] * (a[2] \div g)

QLe(a, b) ==
    LET g == GCD(a[2], b[2])
    IN  a[1] * (b[2] \div g) <= b[1] * (a[2] \div g)

QAbs(a) == <<Abs(a[1]), a[2]>>
QSq(a) == QMul(a, a)

\* A point from integer coordinates.
P(x, y, z) == <<QI(x), QI(y), QI(z)>>

VAdd(p, q) == [i \in 1..3 |-> QAdd(p[i], q[i])] @@ <<>>
VScale(c, p) == [i \in 1..3 |-> QMul(c, p[i])] @@ <<>>

RECURSIVE VSum(_)
VSum(ps) == IF ps = <<>> THEN P(0, 0, 0) ELSE VAdd(ps[1], VSum(Tail(ps)))

\* compas.geometry.centroid_points: the arithmetic mean of the points.
centroid_points(ps) == VScale(Q(1, Len(ps)), VSum(ps))

-----------------------------------------------------------------------------
(* Ordered iteration over sets of keys and of pairs.                       *)

\* The keys of S in ascending order.
SortedSeq(S) ==
    [i \in 1..Cardinality(S) |->
        CHOOSE x \in S : Cardinality({y \in S : y < x}) = i - 1]

PairLt(a, b) == a[1] < b[1] \/ (a[1] = b[1] /\ a[2] < b[2])

\* The pairs of S in lexicographic order.
SortedPairs(S) ==
    [i \in 1..Cardinality(S) |->
        CHOOSE x \in S : Cardinality({y \in S : PairLt(y, x)}) = i - 1]

\* The two halves of a sequence of two or more elements.
FirstHalf(s) == SubSeq(s, 1, Len(s) \div 2)
SecondHalf(s) == SubSeq(s, (Len(s) \div 2) + 1, Len(s))

Range(s) == {s[i] : i \in DOMAIN s}

IndexOf(s, x) == CHOOSE i \in DOMAIN s : s[i] = x

\* s with x inserted before position i (list.insert(i - 1, x) on 0-based lists).
InsertAt(s, i, x) == SubSeq(s, 1, i - 1) \o <<x>> \o SubSeq(s, i, Len(s))

\* F applied to v, with v evaluated first (statements run in order).
Then(v, F(_)) == IF DOMAIN v = {} THEN F(v) ELSE F(v)

\* A function without the key k (del d[k]).
Without(f, k) == [x \in (DOMAIN f) \ {k} |-> f[x]] @@ <<>>

\* A function with the key k set to v (d[k] = v, new or not).
With(f, k, v) == (k :> v) @@ f

-----------------------------------------------------------------------------
(* The Mesh ADT: storage, queries and atomic topology operators.           *)

EmptyMesh == [vertex |-> <<>>, face |-> <<>>, halfedge |-> <<>>,
              vmax |-> -1, fmax |-> -1]

vertices(m) == SortedSeq(DOMAIN m.vertex)
faces(m) == SortedSeq(DOMAIN m.face)
vertex_coordinates(m, key) == m.vertex[key]
face_vertices(m, fkey) == m.face[fkey]

\* The directed pairs (u, v) around a face, closing the cycle.
CyclePairs(keys) ==
    [i \in 1..Len(keys) |-> <<keys[i], keys[(i % Len(keys)) + 1]>>]

face_halfedges(m, fkey) == CyclePairs(m.face[fkey])

face_centroid(m, fkey) ==
    centroid_points([i \in 1..Len(m.face[fkey]) |-> m.vertex[m.face[fkey][i]]])

\* One pair per undirected edge, in dictionary order.
edges(m) ==
    SortedPairs({e \in DOMAIN m.halfedge :
                    e[1] < e[2] \/ <<e[2], e[1]>> \notin DOMAIN m.halfedge})

halfedges(m) == edges(m)

Nbrs(m, key) == {e[2] : e \in {x \in DOMAIN m.halfedge : x[1] = key}}

vertex_neighbours(m, key) == SortedSeq(Nbrs(m, key))
vertex_degree(m, key) == Cardinality(Nbrs(m, key))

is_vertex_on_boundary(m, key) ==
    \E v \in Nbrs(m, key) : m.halfedge[<<key, v>>] = None

vertices_on_boundary(m) ==
    {e[1] : e \in {x \in DOMAIN m.halfedge : m.halfedge[x] = None}}
    \cup {e[2] : e \in {x \in DOMAIN m.halfedge : m.halfedge[x] = None}}

\* The faces around a vertex, None for the outside.
vertex_faces(m, key) ==
    [i \in 1..Len(vertex_neighbours(m, key)) |->
        m.halfedge[<<key, vertex_neighbours(m, key)[i]>>]]

add_vertex(m, xyz) ==
    [mesh |-> [m EXCEPT !.vertex = With(m.vertex, m.vmax + 1, xyz),
                        !.vmax = m.vmax + 1],
     key |-> m.vmax + 1]

RECURSIVE SetHalfedges(_, _, _)
SetHalfedges(he, pairs, fkey) ==
    IF pairs = <<>> THEN he
    ELSE LET uv == pairs[1]
             vu == <<uv[2], uv[1]>>
             h1 == With(he, uv, fkey)
             h2 == IF vu \in DOMAIN h1 THEN h1 ELSE With(h1, vu, None)
         IN  SetHalfedges(h2, Tail(pairs), fkey)

\* Mesh.add_face: fewer than three vertices add nothing.
add_face(m, keys) ==
    IF Len(keys) < 3 THEN m
    ELSE [m EXCEPT !.face = With(m.face, m.fmax + 1, keys),
                   !.fmax = m.fmax + 1,
                   !.halfedge = SetHalfedges(m.halfedge, CyclePairs(keys),
                                             m.fmax + 1)]

\* del mesh.face[fkey]: the face table alone.
del_face(m, fkey) == [m EXCEPT !.face = Without(m.face, fkey)]

\* The point at t = 0.5 on the edge.
edge_midpoint(m, u, v) == VScale(Q(1, 2), VAdd(m.vertex[u], m.vertex[v]))

FaceWithSplit(face, fkey, before, w) ==
    IF fkey = None THEN face
    ELSE [face EXCEPT ![fkey] = InsertAt(face[fkey], IndexOf(face[fkey], before), w)]

\* Mesh.split_edge: a vertex w at the midpoint, both half-edges and both
\* incident faces rewired; refused (no new vertex) on a boundary edge
\* unless allow_boundary.
split_edge(m, u, v, allow_boundary) ==
    LET fkey_uv == m.halfedge[<<u, v>>]
        fkey_vu == m.halfedge[<<v, u>>]
    IN  IF ~allow_boundary /\ (fkey_uv = None \/ fkey_vu = None)
        THEN [mesh |-> m, key |-> None]
        ELSE Then(add_vertex(m, edge_midpoint(m, u, v)),
                  LAMBDA a :
                      [mesh |-> [a.mesh EXCEPT
                           !.halfedge =
                               With(With(With(With(
                                   Without(Without(@, <<u, v>>), <<v, u>>),
                                   <<u, a.key>>, fkey_uv), <<a.key, v>>, fkey_uv),
                                   <<v, a.key>>, fkey_vu), <<a.key, u>>, fkey_vu),
                           !.face =
                               FaceWithSplit(FaceWithSplit(@, fkey_uv, v, a.key),
                                             fkey_vu, u, a.key)],
                       key |-> a.key])

RECURSIVE AddFan(_, _, _)
AddFan(m, pairs, w) ==
    IF pairs = <<>> THEN m
    ELSE AddFan(add_face(m, <<pairs[1][1], pairs[1][2], w>>), Tail(pairs), w)

\* Mesh.insert_vertex: a vertex at the face's centre, fanned to its corners.
insert_vertex(m, fkey) ==
    Then(add_vertex(m, face_centroid(m, fkey)),
         LAMBDA a : del_face(AddFan(a.mesh, face_halfedges(m, fkey), a.key), fkey))

\* Mesh.from_vertices_and_faces.
RECURSIVE AddVertices(_, _)
AddVertices(m, ps) ==
    IF ps = <<>> THEN m ELSE AddVertices(add_vertex(m, ps[1]).mesh, Tail(ps))

RECURSIVE AddFaces(_, _)
AddFaces(m, fs) ==
    IF fs = <<>> THEN m ELSE AddFaces(add_face(m, fs[1]), Tail(fs))

from_vertices_and_faces(ps, fs) == AddFaces(AddVertices(EmptyMesh, ps), fs)

-----------------------------------------------------------------------------
(* The heap of mesh objects: reference -> mesh value.                      *)

NewRef(h) == Cardinality(DOMAIN h) + 1

\* mesh.copy(): a deep copy under a fresh reference.
copy(h, mesh) == [heap |-> With(h, NewRef(h), h[mesh]), ref |-> NewRef(h)]

\* cls(): an empty mesh under a fresh reference.
new_mesh(h) == [heap |-> With(h, NewRef(h), EmptyMesh), ref |-> NewRef(h)]

\* The object behind a reference replaced by a new value (in-place mutation).
Upd(h, ref, m) == [h EXCEPT ![ref] = m]

\* for u, v in list(subd.halfedges()): w = subd.split_edge(u, v, True);
\* the triples <<u, v, w>> in the order of the splits.
split_one(st, subd, e) ==
    Then(split_edge(st.heap[subd], e[1], e[2], TRUE),
         LAMBDA s : [heap |-> Upd(st.heap, subd, s.mesh),
                     uvw |-> Append(st.uvw, <<e[1], e[2], s.key>>)])

RECURSIVE SplitEach(_, _, _)
SplitEach(st, subd, es) ==
    IF Len(es) = 0 THEN st
    ELSE IF Len(es) = 1 THEN split_one(st, subd, es[1])
    ELSE Then(SplitEach(st, subd, FirstHalf(es)),
              LAMBDA x : SplitEach(x, subd, SecondHalf(es)))

SplitAll(h, subd, es, acc) == SplitEach([heap |-> h, uvw |-> acc], subd, es)

\* descendant = {i: j for i, j in face_halfedges}; ancestor = {j: i ...}.
descendant(m, fkey, key) ==
    LET c == m.face[fkey] IN c[(IndexOf(c, key) % Len(c)) + 1]

ancestor(m, fkey, key) ==
    LET c == m.face[fkey] IN c[((IndexOf(c, key) + Len(c) - 2) % Len(c)) + 1]

-----------------------------------------------------------------------------
(* mesh_subdivide_tri                                                      *)

RECURSIVE tri_insert(_, _, _)
tri_insert(h, subd, fkeys) ==
    IF Len(fkeys) = 0 THEN h
    ELSE IF Len(fkeys) = 1 THEN Upd(h, subd, insert_vertex(h[subd], fkeys[1]))
    ELSE Then(tri_insert(h, subd, FirstHalf(fkeys)),
              LAMBDA h1 : tri_insert(h1, subd, SecondHalf(fkeys)))

\* Variant of tri_copy that refines the mesh it was given, in place.
tri_copy_alias(h, mesh) == [heap |-> h, ref |-> mesh]

tri_copy(h, mesh) == copy(h, mesh)

RECURSIVE mesh_subdivide_tri(_, _, _)
mesh_subdivide_tri(h, mesh, k) ==
    IF k = 0 THEN [heap |-> h, ref |-> mesh, exc |-> NoExc]
    ELSE LET c == tri_copy(h, mesh)
         IN  mesh_subdivide_tri(tri_insert(c.heap, c.ref, faces(c.heap[mesh])),
                                c.ref, k - 1)

-----------------------------------------------------------------------------
(* mesh_subdivide_quad                                                     *)

RECURSIVE quad_corners(_, _, _, _, _)
quad_corners(h, subd, fkey, keys, c) ==
    IF keys = <<>> THEN h
    ELSE LET a == ancestor(h[subd], fkey, keys[1])
             d == descendant(h[subd], fkey, keys[1])
         IN  quad_corners(Upd(h, subd, add_face(h[subd], <<a, keys[1], d, c>>)),
                          subd, fkey, Tail(keys), c)

\* The body of "for fkey in mesh.faces()": a centre vertex, one quad per
\* corner of the original face, and the split face dropped.
\* Variant of quad_face that keeps the face it has split.
quad_face_keep(h, mesh, subd, fkey) ==
    Then(add_vertex(h[subd], face_centroid(h[mesh], fkey)),
         LAMBDA a : quad_corners(Upd(h, subd, a.mesh), subd, fkey,
                                 face_vertices(h[mesh], fkey), a.key))

quad_face(h, mesh, subd, fkey) ==
    Then(add_vertex(h[subd], face_centroid(h[mesh], fkey)),
         LAMBDA a :
             Then(quad_corners(Upd(h, subd, a.mesh), subd, fkey,
                               face_vertices(h[mesh], fkey), a.key),
                  LAMBDA h2 : Upd(h2, subd, del_face(h2[subd], fkey))))

RECURSIVE quad_faces(_, _, _, _)
quad_faces(h, mesh, subd, fkeys) ==
    IF Len(fkeys) = 0 THEN h
    ELSE IF Len(fkeys) = 1 THEN quad_face(h, mesh, subd, fkeys[1])
    ELSE Then(quad_faces(h, mesh, subd, FirstHalf(fkeys)),
              LAMBDA h1 : quad_faces(h1, mesh, subd, SecondHalf(fkeys)))

quad_copy(h, mesh) == copy(h, mesh)

\* for u, v in list(subd.halfedges()): subd.split_edge(u, v, allow_boundary=True)
\* Variant of quad_split_edges that splits no edge.
quad_split_none(h, subd) == [heap |-> h, uvw |-> <<>>]

quad_split_edges(h, subd) == SplitAll(h, subd, halfedges(h[subd]), <<>>)

RECURSIVE mesh_subdivide_quad(_, _, _)
mesh_subdivide_quad(h, mesh, k) ==
    IF k = 0 THEN [heap |-> h, ref |-> mesh, exc |-> NoExc]
    ELSE LET c == quad_copy(h, mesh)
         IN  Then(quad_split_edges(c.heap, c.ref),
                  LAMBDA s :
                      Then(quad_faces(s.heap, mesh, c.ref, faces(s.heap[mesh])),
                           LAMBDA h1 : mesh_subdivide_quad(h1, c.ref, k - 1)))

-----------------------------------------------------------------------------
(* mesh_subdivide_corner                                                   *)

RECURSIVE corner_corners(_, _, _, _, _)
corner_corners(h, subd, fkey, keys, center) ==
    IF keys = <<>> THEN [heap |-> h, center |-> center]
    ELSE LET a == ancestor(h[subd], fkey, keys[1])
             d == descendant(h[subd], fkey, keys[1])
         IN  Then(Append(center, a),
                  LAMBDA c : corner_corners(
                                 Upd(h, subd, add_face(h[subd], <<a, keys[1], d>>)),
                                 subd, fkey, Tail(keys), c))

corner_face(h, mesh, subd, fkey) ==
    Then(corner_corners(h, subd, fkey, face_vertices(h[mesh], fkey), <<>>),
         LAMBDA r :
             Upd(r.heap, subd, del_face(add_face(r.heap[subd], r.center), fkey)))

RECURSIVE corner_faces(_, _, _, _)
corner_faces(h, mesh, subd, fkeys) ==
    IF Len(fkeys) = 0 THEN h
    ELSE IF Len(fkeys) = 1 THEN corner_face(h, mesh, subd, fkeys[1])
    ELSE Then(corner_faces(h, mesh, subd, FirstHalf(fkeys)),
              LAMBDA h1 : corner_faces(h1, mesh, subd, SecondHalf(fkeys)))

corner_copy(h, mesh) == copy(h, mesh)

RECURSIVE mesh_subdivide_corner(_, _, _)
mesh_subdivide_corner(h, mesh, k) ==
    IF k = 0 THEN [heap |-> h, ref |-> mesh, exc |-> NoExc]
    ELSE LET c == corner_copy(h, mesh)
         IN  Then(SplitAll(c.heap, c.ref, halfedges(c.heap[c.ref]), <<>>),
                  LAMBDA s :
                      Then(corner_faces(s.heap, mesh, c.ref, faces(s.heap[mesh])),
                           LAMBDA h1 : mesh_subdivide_corner(h1, c.ref, k - 1)))

-----------------------------------------------------------------------------
(* mesh_subdivide_catmullclark                                             *)

\* The positions (old or current) of the keys, in their order.
Coords(xyz, keys) == [i \in 1..Len(keys) |-> xyz[keys[i]]]

SetXYZ(m, key, xyz) == [m EXCEPT !.vertex[key] = xyz]

\* The edge points that get the interior stencil: those of the edges that
\* do not have both ends on the boundary.
cc_edgepoints(uvw, bkeys) ==
    LET kept == SelectSeq(uvw, LAMBDA t : ~(t[1] \in bkeys /\ t[2] \in bkeys))
    IN  [i \in 1..Len(kept) |-> kept[i][3]]

\* bkey_edgepoints[key], as the set the code turns it into.
cc_bkey_edgepoints(uvw, bkeys, key) ==
    {uvw[i][3] : i \in {j \in DOMAIN uvw :
                          /\ uvw[j][1] \in bkeys
                          /\ uvw[j][2] \in bkeys
                          /\ key \in {uvw[j][1], uvw[j][2]}}}

RECURSIVE cc_corners(_, _, _, _, _)
cc_corners(h, subd, fkey, keys, c) ==
    IF keys = <<>> THEN h
    ELSE LET a == ancestor(h[subd], fkey, keys[1])
             d == descendant(h[subd], fkey, keys[1])
         IN  cc_corners(Upd(h, subd, add_face(h[subd], <<a, keys[1], d, c>>)),
                        subd, fkey, Tail(keys), c)

cc_face(h, mesh, subd, fkey) ==
    Then(add_vertex(h[subd], face_centroid(h[mesh], fkey)),
         LAMBDA a :
             Then(cc_corners(Upd(h, subd, a.mesh), subd, fkey,
                             face_vertices(h[mesh], fkey), a.key),
                  LAMBDA h2 : Upd(h2, subd, del_face(h2[subd], fkey))))

RECURSIVE cc_faces(_, _, _, _)
cc_faces(h, mesh, subd, fkeys) ==
    IF Len(fkeys) = 0 THEN h
    ELSE IF Len(fkeys) = 1 THEN cc_face(h, mesh, subd, fkeys[1])
    ELSE Then(cc_faces(h, mesh, subd, FirstHalf(fkeys)),
              LAMBDA h1 : cc_faces(h1, mesh, subd, SecondHalf(fkeys)))

\* Each edge point moved to the centroid of its neighbours' old positions.
cc_move_edgepoint(h, subd, w, key_xyz) ==
    Upd(h, subd,
        SetXYZ(h[subd], w,
               centroid_points(Coords(key_xyz, vertex_neighbours(h[subd], w)))))

RECURSIVE cc_move_edgepoints(_, _, _, _)
cc_move_edgepoints(h, subd, ws, key_xyz) ==
    IF Len(ws) = 0 THEN h
    ELSE IF Len(ws) = 1 THEN cc_move_edgepoint(h, subd, ws[1], key_xyz)
    ELSE Then(cc_move_edgepoints(h, subd, FirstHalf(ws), key_xyz),
              LAMBDA h1 : cc_move_edgepoints(h1, subd, SecondHalf(ws), key_xyz))

\* if key in fixed: continue
\* Variant of cc_skips that exempts no vertex.
cc_skips_none(key, fixed) == FALSE

cc_skips(key, fixed) == key \in fixed

NotNone(s) == SelectSeq(s, LAMBDA f : f # None)

FaceCentroids(m, fkeys) == [i \in 1..Len(fkeys) |-> face_centroid(m, fkeys[i])]

\* The new position of an original vertex.
cc_vertex_point(h, mesh, subd, key, bkeys, uvw, key_xyz) ==
    IF key \in bkeys
    THEN VAdd(VScale(Q(1, 2),
                     centroid_points(
                         Coords(key_xyz,
                                SortedSeq(cc_bkey_edgepoints(uvw, bkeys, key))))),
              VScale(Q(1, 2), key_xyz[key]))
    ELSE LET n == vertex_degree(h[subd], key)
         IN  VAdd(VAdd(VScale(Q(1, n),
                              centroid_points(
                                  FaceCentroids(h[mesh],
                                      NotNone(vertex_faces(h[mesh], key))))),
                       VScale(Q(2, n),
                              centroid_points(
                                  Coords(key_xyz,
                                         vertex_neighbours(h[subd], key))))),
                  VScale(Q(n - 3, n), key_xyz[key]))

cc_move_vertex(h, mesh, subd, key, fixed, bkeys, uvw, key_xyz) ==
    IF cc_skips(key, fixed) THEN h
    ELSE Upd(h, subd,
             SetXYZ(h[subd], key,
                    cc_vertex_point(h, mesh, subd, key, bkeys, uvw, key_xyz)))

RECURSIVE cc_move_vertices(_, _, _, _, _, _, _, _)
cc_move_vertices(h, mesh, subd, keys, fixed, bkeys, uvw, key_xyz) ==
    IF Len(keys) = 0 THEN h
    ELSE IF Len(keys) = 1
    THEN cc_move_vertex(h, mesh, subd, keys[1], fixed, bkeys, uvw, key_xyz)
    ELSE Then(cc_move_vertices(h, mesh, subd, FirstHalf(keys), fixed, bkeys, uvw,
                               key_xyz),
              LAMBDA h1 : cc_move_vertices(h1, mesh, subd, SecondHalf(keys), fixed,
                                           bkeys, uvw, key_xyz))

cc_copy(h, mesh) == copy(h, mesh)

\* The smoothing of a level: the edge points, then the original vertices,
\* both from key_xyz, the positions before either moved.
cc_move(h, mesh, subd, fixed, bkeys, uvw, key_xyz) ==
    Then(cc_move_edgepoints(h, subd, cc_edgepoints(uvw, bkeys), key_xyz),
         LAMBDA h2 :
             [heap |-> cc_move_vertices(h2, mesh, subd, vertices(h2[mesh]), fixed,
                                        bkeys, uvw, key_xyz),
              ref |-> subd])

\* One pass of the "for _ in range(k)" loop.
cc_level(h, mesh, fixed) ==
    LET c == cc_copy(h, mesh)
        subd == c.ref
        bkeys == vertices_on_boundary(c.heap[subd])
    IN  Then(SplitAll(c.heap, subd, halfedges(c.heap[subd]), <<>>),
             LAMBDA s :
                 Then(cc_faces(s.heap, mesh, subd, faces(s.heap[mesh])),
                      LAMBDA h1 :
                          cc_move(h1, mesh, subd, fixed, bkeys, s.uvw,
                                  h1[subd].vertex)))

RECURSIVE mesh_subdivide_catmullclark(_, _, _, _)
mesh_subdivide_catmullclark(h, mesh, k, fixed) ==
    IF k = 0 THEN [heap |-> h, ref |-> mesh, exc |-> NoExc]
    ELSE Then(cc_level(h, mesh, fixed),
              LAMBDA l : mesh_subdivide_catmullclark(l.heap, l.ref, k - 1, fixed))

-----------------------------------------------------------------------------
(* mesh_subdivide_doosabin                                                 *)

\* cos(2 * pi * m / n): exact where it is rational, to three decimals
\* otherwise (n = 5, 8).
cos_2pi(m, n) ==
    LET r == Abs(m) % n
        t == IF 2 * r > n THEN n - r ELSE r
    IN  CASE t = 0 -> QI(1)
          [] 2 * t = n -> QI(-1)
          [] 4 * t = n -> QI(0)
          [] 3 * t = n -> Q(-1, 2)
          [] 6 * t = n -> Q(1, 2)
          [] 5 * t = n -> Q(309, 1000)
          [] 5 * t = 2 * n -> Q(-809, 1000)
          [] 8 * t = n -> Q(707, 1000)
          [] 8 * t = 3 * n -> Q(-707, 1000)

doosabin_alpha(i, j, n) ==
    IF i = j THEN Q(n + 5, 4 * n)
    ELSE QDiv(QAdd(QI(3), QMul(QI(2), cos_2pi(i - j, n))), QI(4 * n))

\* The new vertex for corner i of a face: the alpha-weighted sum of the
\* face's old positions.
doosabin_point(m, fkey, i) ==
    LET keys == face_vertices(m, fkey)
        n == Len(keys)
    IN  VSum([j \in 1..n |-> VScale(doosabin_alpha(i, j, n), m.vertex[keys[j]])])

\* One new vertex per (face, corner); fkey_old_new as <<fkey, old>> -> new.
RECURSIVE doosabin_corners(_, _, _, _, _, _)
doosabin_corners(h, mesh, subd, fkey, i, old_new) ==
    IF i > Len(face_vertices(h[mesh], fkey)) THEN [heap |-> h, old_new |-> old_new]
    ELSE Then(add_vertex(h[subd], doosabin_point(h[mesh], fkey, i)),
              LAMBDA a :
                  Then(With(old_new, <<fkey, face_vertices(h[mesh], fkey)[i]>>,
                            a.key),
                       LAMBDA o : doosabin_corners(Upd(h, subd, a.mesh), mesh,
                                                   subd, fkey, i + 1, o)))

RECURSIVE doosabin_vertices(_, _, _, _, _)
doosabin_vertices(h, mesh, subd, fkeys, old_new) ==
    IF Len(fkeys) = 0 THEN [heap |-> h, old_new |-> old_new]
    ELSE IF Len(fkeys) = 1
    THEN doosabin_corners(h, mesh, subd, fkeys[1], 1, old_new)
    ELSE Then(doosabin_vertices(h, mesh, subd, FirstHalf(fkeys), old_new),
              LAMBDA x : doosabin_vertices(x.heap, mesh, subd, SecondHalf(fkeys),
                                           x.old_new))

doosabin_face_face(h, mesh, subd, fkey, old_new) ==
    LET keys == face_vertices(h[mesh], fkey)
        face == [i \in 1..Len(keys) |-> old_new[<<fkey, keys[i]>>]]
    IN  Upd(h, subd, add_face(h[subd], face))

\* One face per original face, from its corners' new vertices.
RECURSIVE doosabin_face_faces(_, _, _, _, _)
doosabin_face_faces(h, mesh, subd, fkeys, old_new) ==
    IF Len(fkeys) = 0 THEN h
    ELSE IF Len(fkeys) = 1
    THEN doosabin_face_face(h, mesh, subd, fkeys[1], old_new)
    ELSE Then(doosabin_face_faces(h, mesh, subd, FirstHalf(fkeys), old_new),
              LAMBDA h1 : doosabin_face_faces(h1, mesh, subd, SecondHalf(fkeys),
                                              old_new))

\* Mesh.vertex_neighbours(key, ordered=True): the neighbours in the order
\* of the faces around the vertex, starting at the outside if there is one.
RECURSIVE OrderedNbrs(_, _, _, _, _, _)
OrderedNbrs(m, key, start, fkey, nbrs, count) ==
    IF count = 0 THEN nbrs
    ELSE LET nbr == descendant(m, fkey, key)
             nxt == m.halfedge[<<nbr, key>>]
         IN  IF nbr = start THEN nbrs
             ELSE IF nxt = None THEN Append(nbrs, nbr)
             ELSE OrderedNbrs(m, key, start, nxt, Append(nbrs, nbr), count - 1)

vertex_neighbours_ordered(m, key) ==
    LET temp == vertex_neighbours(m, key)
        out == SelectSeq(temp, LAMBDA n : m.halfedge[<<key, n>>] = None)
        start == IF out # <<>> THEN out[1] ELSE temp[1]
    IN  IF Len(temp) = 1 THEN temp
        ELSE OrderedNbrs(m, key, start, m.halfedge[<<start, key>>], <<start>>,
                         Len(temp))

\* The faces of the half-edges from key to each neighbour, None left out.
FacesAlong(m, key, nbrs) ==
    NotNone([i \in 1..Len(nbrs) |-> m.halfedge[<<key, nbrs[i]>>]])

vertex_faces_ordered(m, key) ==
    FacesAlong(m, key, vertex_neighbours_ordered(m, key))

Reverse(s) == [i \in 1..Len(s) |-> s[Len(s) + 1 - i]]

\* if mesh.is_vertex_on_boundary(key): continue
\* Variant of doosabin_skips_vertex that skips no vertex.
doosabin_skips_none(m, key) == FALSE

doosabin_skips_vertex(m, key) == is_vertex_on_boundary(m, key)

\* One face per original vertex that is not on the boundary.
CornersAround(fkeys, key, old_new) ==
    [i \in 1..Len(fkeys) |-> old_new[<<fkeys[i], key>>]]

doosabin_vertex_face(h, mesh, subd, key, old_new) ==
    IF doosabin_skips_vertex(h[mesh], key) THEN h
    ELSE Upd(h, subd,
             add_face(h[subd],
                      Reverse(CornersAround(vertex_faces_ordered(h[mesh], key),
                                            key, old_new))))

RECURSIVE doosabin_vertex_faces(_, _, _, _, _)
doosabin_vertex_faces(h, mesh, subd, keys, old_new) ==
    IF Len(keys) = 0 THEN h
    ELSE IF Len(keys) = 1
    THEN doosabin_vertex_face(h, mesh, subd, keys[1], old_new)
    ELSE Then(doosabin_vertex_faces(h, mesh, subd, FirstHalf(keys), old_new),
              LAMBDA h1 : doosabin_vertex_faces(h1, mesh, subd, SecondHalf(keys),
                                                old_new))

\* if uv_fkey is None or vu_fkey is None: continue
doosabin_skips_edge(uv_fkey, vu_fkey) == uv_fkey = None \/ vu_fkey = None

\* One quad per original edge with a face on both sides.
doosabin_edge_face(h, mesh, subd, u, v, old_new) ==
    LET uv_fkey == h[mesh].halfedge[<<u, v>>]
        vu_fkey == h[mesh].halfedge[<<v, u>>]
    IN  IF doosabin_skips_edge(uv_fkey, vu_fkey) THEN h
        ELSE Upd(h, subd,
                 add_face(h[subd],
                          <<old_new[<<uv_fkey, u>>], old_new[<<vu_fkey, u>>],
                            old_new[<<vu_fkey, v>>], old_new[<<uv_fkey, v>>]>>))

RECURSIVE doosabin_edge_faces(_, _, _, _, _)
doosabin_edge_faces(h, mesh, subd, es, old_new) ==
    IF Len(es) = 0 THEN h
    ELSE IF Len(es) = 1
    THEN doosabin_edge_face(h, mesh, subd, es[1][1], es[1][2], old_new)
    ELSE Then(doosabin_edge_faces(h, mesh, subd, FirstHalf(es), old_new),
              LAMBDA h1 : doosabin_edge_faces(h1, mesh, subd, SecondHalf(es),
                                              old_new))

\* The faces of a level, from fkey_old_new: per face, per vertex, per edge.
doosabin_faces(h, mesh, subd, old_new) ==
    Then(doosabin_face_faces(h, mesh, subd, faces(h[mesh]), old_new),
         LAMBDA h1 :
             Then(doosabin_vertex_faces(h1, mesh, subd, vertices(h1[mesh]),
                                        old_new),
                  LAMBDA h2 :
                      [heap |-> doosabin_edge_faces(h2, mesh, subd, edges(h2[mesh]),
                                                    old_new),
                       ref |-> subd]))

doosabin_level(h, mesh) ==
    LET c == new_mesh(h)
    IN  Then(doosabin_vertices(c.heap, mesh, c.ref, faces(c.heap[mesh]), <<>>),
             LAMBDA r : doosabin_faces(r.heap, mesh, c.ref, r.old_new))

RECURSIVE mesh_subdivide_doosabin(_, _, _, _)
mesh_subdivide_doosabin(h, mesh, k, fixed) ==
    IF k = 0 THEN [heap |-> h, ref |-> mesh, exc |-> NoExc]
    ELSE Then(doosabin_level(h, mesh),
              LAMBDA l : mesh_subdivide_doosabin(l.heap, l.ref, k - 1, fixed))

-----------------------------------------------------------------------------
(* trimesh_subdivide_loop                                                  *)

\* uv_w = {(u, v): subd.face[subd.halfedge[u][v]][v] ...}: the vertex after
\* v in the face of the half-edge (the apex, in a triangle).  The lookup
\* subd.face[None] of a half-edge without a face is a KeyError.
uv_w_raises(m) == \E e \in DOMAIN m.halfedge : m.halfedge[e] \notin DOMAIN m.face

uv_w(m, u, v) == descendant(m, m.halfedge[<<u, v>>], v)

loop_a(n) ==
    IF n = 3 THEN Q(3, 16)
    ELSE QDiv(QSub(Q(5, 8), QSq(QAdd(Q(3, 8), QMul(Q(1, 4), cos_2pi(1, n))))),
              QI(n))

\* The new position of an existing vertex:
\* (1 - n * a) * xyz + a * sum(neighbours), from the old positions.
loop_stencil(n, a, xyz, nbrs) ==
    VAdd(VScale(QSub(QI(1), QMul(QI(n), a)), xyz), VScale(a, VSum(nbrs)))

loop_vertex_point(m, key, key_xyz) ==
    loop_stencil(vertex_degree(m, key), loop_a(vertex_degree(m, key)),
                 key_xyz[key], Coords(key_xyz, vertex_neighbours(m, key)))

loop_move_vertex(h, subd, key, key_xyz) ==
    Upd(h, subd, SetXYZ(h[subd], key, loop_vertex_point(h[subd], key, key_xyz)))

RECURSIVE loop_move_vertices(_, _, _, _)
loop_move_vertices(h, subd, keys, key_xyz) ==
    IF Len(keys) = 0 THEN h
    ELSE IF Len(keys) = 1 THEN loop_move_vertex(h, subd, keys[1], key_xyz)
    ELSE Then(loop_move_vertices(h, subd, FirstHalf(keys), key_xyz),
              LAMBDA h1 : loop_move_vertices(h1, subd, SecondHalf(keys), key_xyz))

\* 3/8 * (u + v) + 1/8 * (left apex + right apex), from the old positions.
loop_edge_point(key_xyz, u, v, l, r) ==
    VAdd(VScale(Q(3, 8), VAdd(key_xyz[u], key_xyz[v])),
         VScale(Q(1, 8), VAdd(key_xyz[l], key_xyz[r])))

\* Every edge split and its new vertex placed; edgepoints as <<u, v>> -> w.
loop_split_edge(st, subd, u, v, old, key_xyz) ==
    Then(split_edge(st.heap[subd], u, v, TRUE),
         LAMBDA s :
             [heap |-> Upd(st.heap, subd,
                           SetXYZ(s.mesh, s.key,
                                  loop_edge_point(key_xyz, u, v, uv_w(old, u, v),
                                                  uv_w(old, v, u)))),
              edgepoints |-> With(With(st.edgepoints, <<u, v>>, s.key),
                                  <<v, u>>, s.key)])

RECURSIVE loop_split_each(_, _, _, _, _)
loop_split_each(st, subd, es, old, key_xyz) ==
    IF Len(es) = 0 THEN st
    ELSE IF Len(es) = 1
    THEN loop_split_edge(st, subd, es[1][1], es[1][2], old, key_xyz)
    ELSE Then(loop_split_each(st, subd, FirstHalf(es), old, key_xyz),
              LAMBDA x : loop_split_each(x, subd, SecondHalf(es), old, key_xyz))

loop_split_edges(h, subd, es, old, key_xyz, edgepoints) ==
    loop_split_each([heap |-> h, edgepoints |-> edgepoints], subd, es, old, key_xyz)

\* The four triangles that replace one original triangle.
\* Variant of loop_face that keeps the face it has split.
loop_face_keep(m, fkey, keys, ep) ==
    LET u == keys[1]
        v == keys[2]
        w == keys[3]
        uv == ep[<<u, v>>]
        vw == ep[<<v, w>>]
        wu == ep[<<w, u>>]
    IN  add_face(add_face(add_face(add_face(m, <<wu, u, uv>>),
                                   <<uv, v, vw>>),
                          <<vw, w, wu>>),
                 <<uv, vw, wu>>)

loop_face(m, fkey, keys, ep) ==
    LET u == keys[1]
        v == keys[2]
        w == keys[3]
        uv == ep[<<u, v>>]
        vw == ep[<<v, w>>]
        wu == ep[<<w, u>>]
    IN  del_face(add_face(add_face(add_face(add_face(m, <<wu, u, uv>>),
                                            <<uv, v, vw>>),
                                   <<vw, w, wu>>),
                          <<uv, vw, wu>>),
                 fkey)

\* u, v, w = vertices: a ValueError on a face that is no triangle.
loop_face_step(st, subd, fkey, fkey_vertices, ep) ==
    IF st.exc # NoExc THEN st
    ELSE IF Len(fkey_vertices[fkey]) # 3 THEN [heap |-> st.heap, exc |-> "ValueError"]
    ELSE [heap |-> Upd(st.heap, subd,
                       loop_face(st.heap[subd], fkey, fkey_vertices[fkey], ep)),
          exc |-> NoExc]

RECURSIVE loop_faces_each(_, _, _, _, _)
loop_faces_each(st, subd, fkeys, fkey_vertices, ep) ==
    IF Len(fkeys) = 0 THEN st
    ELSE IF Len(fkeys) = 1 THEN loop_face_step(st, subd, fkeys[1], fkey_vertices, ep)
    ELSE Then(loop_faces_each(st, subd, FirstHalf(fkeys), fkey_vertices, ep),
              LAMBDA x : loop_faces_each(x, subd, SecondHalf(fkeys), fkey_vertices,
                                         ep))

loop_faces(h, subd, fkeys, fkey_vertices, ep) ==
    loop_faces_each([heap |-> h, exc |-> NoExc], subd, fkeys, fkey_vertices, ep)

\* One pass of the "for _ in range(k)" loop, on subd in place.
loop_level(h, subd) ==
    IF uv_w_raises(h[subd]) THEN [heap |-> h, exc |-> "KeyError"]
    ELSE LET old == h[subd]
             key_xyz == old.vertex
         IN  Then(loop_move_vertices(h, subd, vertices(old), key_xyz),
                  LAMBDA h1 :
                      Then(loop_split_edges(h1, subd, edges(h1[subd]), old, key_xyz,
                                            <<>>),
                           LAMBDA s : loop_faces(s.heap, subd, faces(old), old.face,
                                                 s.edgepoints)))

RECURSIVE loop_levels(_, _, _)
loop_levels(h, subd, k) ==
    IF k = 0 THEN [heap |-> h, ref |-> subd, exc |-> NoExc]
    ELSE Then(loop_level(h, subd),
              LAMBDA l :
                  IF l.exc # NoExc THEN [heap |-> l.heap, ref |-> None, exc |-> l.exc]
                  ELSE loop_levels(l.heap, subd, k - 1))

loop_copy(h, mesh) == copy(h, mesh)

trimesh_subdivide_loop(h, mesh, k, fixed) ==
    LET c == loop_copy(h, mesh) IN loop_levels(c.heap, c.ref, k)

-----------------------------------------------------------------------------
(* mesh_subdivide: dispatch on the scheme name.                            *)

\* The operator behind a scheme name, "" where the name is not recognised.
\* Variant of scheme_operator that also knows the Loop scheme.
scheme_operator_with_loop(scheme) ==
    CASE scheme = "tri" -> "mesh_subdivide_tri"
      [] scheme = "quad" -> "mesh_subdivide_quad"
      [] scheme = "corner" -> "mesh_subdivide_corner"
      [] scheme = "catmullclark" -> "mesh_subdivide_catmullclark"
      [] scheme = "doosabin" -> "mesh_subdivide_doosabin"
      [] scheme = "loop" -> "trimesh_subdivide_loop"
      [] OTHER -> ""

scheme_operator(scheme) ==
    CASE scheme = "tri" -> "mesh_subdivide_tri"
      [] scheme = "quad" -> "mesh_subdivide_quad"
      [] scheme = "corner" -> "mesh_subdivide_corner"
      [] scheme = "catmullclark" -> "mesh_subdivide_catmullclark"
      [] scheme = "doosabin" -> "mesh_subdivide_doosabin"
      [] OTHER -> ""

\* A call of one of the six operators.
Operator(op, h, mesh, k, fixed) ==
    CASE op = "mesh_subdivide_tri" -> mesh_subdivide_tri(h, mesh, k)
      [] op = "mesh_subdivide_quad" -> mesh_subdivide_quad(h, mesh, k)
      [] op = "mesh_subdivide_corner" -> mesh_subdivide_corner(h, mesh, k)
      [] op = "mesh_subdivide_catmullclark" ->
             mesh_subdivide_catmullclark(h, mesh, k, fixed)
      [] op = "mesh_subdivide_doosabin" -> mesh_subdivide_doosabin(h, mesh, k, fixed)
      [] op = "trimesh_subdivide_loop" -> trimesh_subdivide_loop(h, mesh, k, fixed)

\* The outcome of a call, with the operator that ran ("" if none did).
Invoked(r, op) == [heap |-> r.heap, ref |-> r.ref, exc |-> r.exc, invoked |-> op]

mesh_subdivide(h, mesh, scheme, k, fixed) ==
    IF scheme_operator(scheme) = ""
    THEN [heap |-> h, ref |-> None, exc |-> "NotImplementedError", invoked |-> ""]
    ELSE Invoked(Operator(scheme_operator(scheme), h, mesh, k, fixed),
                 scheme_operator(scheme))

-----------------------------------------------------------------------------
(* The meshes the operators are applied to.                                *)

\* The spec's end-to-end scenario: one planar quad.
SingleQuad ==
    from_vertices_and_faces(<<P(0, 0, 0), P(1, 0, 0), P(1, 1, 0), P(0, 1, 0)>>,
                            <<<<0, 1, 2, 3>>>>)

\* Two triangles sharing an edge whose ends are both on the boundary.
TwoTris ==
    from_vertices_and_faces(<<P(0, 0, 0), P(4, 0, 0), P(4, 4, 0), P(0, 4, 0)>>,
                            <<<<0, 1, 2>>, <<0, 2, 3>>>>)

\* The optimiser's docstring example: a fan of four triangles.
Fan4 ==
    from_vertices_and_faces(
        <<P(0, 0, 0), P(10, 0, 0), P(10, 10, 0), P(0, 10, 0), P(5, 5, 0)>>,
        <<<<0, 1, 4>>, <<1, 2, 4>>, <<2, 3, 4>>, <<3, 0, 4>>>>)

\* A closed triangle mesh.
Tetrahedron ==
    from_vertices_and_faces(
        <<P(1, 1, 1), P(1, -1, -1), P(-1, 1, -1), P(-1, -1, 1)>>,
        <<<<0, 1, 2>>, <<0, 3, 1>>, <<0, 2, 3>>, <<1, 3, 2>>>>)

\* A closed quad mesh.
Cube ==
    from_vertices_and_faces(
        <<P(0, 0, 0), P(2, 0, 0), P(2, 2, 0), P(0, 2, 0),
          P(0, 0, 2), P(2, 0, 2), P(2, 2, 2), P(0, 2, 2)>>,
        <<<<0, 3, 2, 1>>, <<4, 5, 6, 7>>, <<0, 1, 5, 4>>,
          <<1, 2, 6, 5>>, <<2, 3, 7, 6>>, <<3, 0, 4, 7>>>>)

\* A closed triangle mesh with vertices of degree 3 and 4.
Bipyramid ==
    from_vertices_and_faces(
        <<P(2, 0, 0), P(-1, 2, 0), P(-1, -2, 0), P(0, 0, 2), P(0, 0, -2)>>,
        <<<<0, 1, 3>>, <<1, 2, 3>>, <<2, 0, 3>>,
          <<1, 0, 4>>, <<2, 1, 4>>, <<0, 2, 4>>>>)

\* Three triangles around a boundary vertex.
OpenFan3 ==
    from_vertices_and_faces(
        <<P(0, 0, 0), P(2, 0, 0), P(2, 2, 0), P(0, 2, 0), P(-2, 2, 0)>>,
        <<<<0, 1, 2>>, <<0, 2, 3>>, <<0, 3, 4>>>>)

\* An open mesh of a quad and a triangle around no interior vertex.
QuadTri ==
    from_vertices_and_faces(
        <<P(0, 0, 0), P(2, 0, 0), P(2, 2, 0), P(0, 2, 0), P(4, 1, 1)>>,
        <<<<0, 1, 2, 3>>, <<1, 4, 2>>>>)

InputMeshes ==
    {SingleQuad, TwoTris, Fan4, Tetrahedron, Cube, QuadTri, Bipyramid, OpenFan3}

\* The largest level count of a call.
MaxK == 1

\* The fixed sets tried on a mesh: none, each single vertex, all.
FixedSets(m) == {{}} \cup {{v} : v \in DOMAIN m.vertex} \cup {DOMAIN m.vertex}

Operators ==
    {"mesh_subdivide_tri", "mesh_subdivide_quad", "mesh_subdivide_corner",
     "mesh_subdivide_catmullclark", "mesh_subdivide_doosabin",
     "trimesh_subdivide_loop"}

TakesFixed ==
    {"mesh_subdivide_catmullclark", "mesh_subdivide_doosabin",
     "trimesh_subdivide_loop"}

\* The scheme names a caller may pass: the documented ones and others.
SchemeNames ==
    {"tri", "quad", "corner", "catmullclark", "doosabin", "loop", "Tri", ""}

-----------------------------------------------------------------------------
(* The state machine: a caller holding one mesh calls an operator once,    *)
(* and may then edit the mesh it got back.                                 *)

NoCall == [op |-> "", scheme |-> "", k |-> 0, fixed |-> {}, invoked |-> ""]

\* The record of a call.
Called(op, scheme, k, fixed, invoked) ==
    [op |-> op, scheme |-> scheme, k |-> k, fixed |-> fixed, invoked |-> invoked]

OptIdle == [state |-> "idle"]

\* No XFunc object.
XIdle == [state |-> "idle"]

\* What the caller can still reach after a call: its mesh and the result.
Reachable(h, ref) ==
    [r \in {InputRef} \cup ({ref} \ {None}) |-> h[r]]

Init ==
    /\ orig \in InputMeshes
    /\ heap = [r \in {InputRef} |-> orig]
    /\ pc = "ready"
    /\ call = NoCall
    /\ result = None
    /\ raised = NoExc
    /\ opt = OptIdle
    /\ xf = XIdle

Finish(r, op, scheme, k, fixed) ==
    /\ heap' = Reachable(r.heap, r.ref)
    /\ result' = r.ref
    /\ raised' = r.exc
    /\ pc' = IF r.exc = NoExc THEN "returned" ELSE "raised"
    /\ call' = Called(op, scheme, k, fixed, r.invoked)
    /\ UNCHANGED <<orig, opt, xf>>

\* A direct call of one of the six operators.
CallOperator(op, k, fixed) ==
    /\ pc = "ready"
    /\ Finish(Invoked(Operator(op, heap, InputRef, k, fixed), op),
              op, "", k, fixed)

\* A call of mesh_subdivide(mesh, scheme, k=k).
CallSubdivide(scheme, k) ==
    /\ pc = "ready"
    /\ Finish(mesh_subdivide(heap, InputRef, scheme, k, {}),
              "mesh_subdivide", scheme, k, {})

\* The caller moves a vertex of the mesh it got back.
MutateResult(key) ==
    /\ pc = "returned"
    /\ key \in DOMAIN heap[result].vertex
    /\ heap' = Upd(heap, result,
                   SetXYZ(heap[result], key,
                          VAdd(heap[result].vertex[key], P(1, 0, 0))))
    /\ pc' = "mutated"
    /\ UNCHANGED <<orig, call, result, raised, opt, xf>>

Next ==
    \/ \E op \in Operators, k \in 0..MaxK :
          \E fixed \in (IF op \in TakesFixed THEN FixedSets(orig) ELSE {{}}) :
              CallOperator(op, k, fixed)
    \/ \E scheme \in SchemeNames, k \in 0..MaxK : CallSubdivide(scheme, k)
    \/ \E key \in 0..3 : MutateResult(key)

Spec == Init /\ [][Next]_vars

-----------------------------------------------------------------------------
(* What the remeshing optimiser calls: edge lengths, the triangle-mesh     *)
(* operators and the smoothing helper.  Lengths are square roots, so they  *)
(* are kept squared and compared squared.  The optimiser's meshes lie in   *)
(* the plane z = 0, where the area of a triangle is rational.              *)

VSub(p, q) == [i \in 1..3 |-> QSub(p[i], q[i])] @@ <<>>

\* mesh.edge_length(u, v), squared.
Norm2(d) == QAdd(QAdd(QSq(d[1]), QSq(d[2])), QSq(d[3]))

edge_length2(m, u, v) == Norm2(VSub(m.vertex[u], m.vertex[v]))

\* length <= bound and length >= bound, from the squared length.
LengthLe(l2, bound) == ~QLt(bound, QI(0)) /\ QLe(l2, QSq(bound))
LengthGe(l2, bound) == QLe(bound, QI(0)) \/ QLe(QSq(bound), l2)

\* The root of a square number.
ISqrt(n) == CHOOSE r \in 0..n : r * r = n

\* The root of a rational that is a square.
QSqrt(q) == <<ISqrt(q[1]), ISqrt(q[2])>>

\* max(edge_lengths), squared.
MaxOf(ls) == CHOOSE l \in ls : \A x \in ls : QLe(x, l)

MaxLength2(m, es) ==
    MaxOf({edge_length2(m, es[i][1], es[i][2]) : i \in 1..Len(es)})

\* The half-edge table that a face table implies.
HalfedgesOf(face) ==
    LET inner == {<<f, i>> \in (DOMAIN face) \X (1..3) : i <= Len(face[f])}
        dir == {CyclePairs(face[x[1]])[x[2]] : x \in inner}
        fkeyOf(e) == (CHOOSE x \in inner : CyclePairs(face[x[1]])[x[2]] = e)[1]
        all == dir \cup {<<e[2], e[1]>> : e \in dir}
    IN  [e \in all |-> IF e \in dir THEN fkeyOf(e) ELSE None] @@ <<>>

\* trimesh_split_edge: a vertex w at the midpoint of (u, v); each incident
\* triangle becomes two.  Nothing happens on a boundary edge unless
\* allow_boundary.
\* One side of the split of (u, v) at w: the triangle fkey of the old mesh
\* on that side, with apex o, becomes (u, w, o) and (w, v, o); on a side
\* without a face the two half-edges are recorded.
split_side(m, fkey, u, v, w, o) ==
    IF fkey = None
    THEN [m EXCEPT !.halfedge = With(With(@, <<u, w>>, None), <<w, v>>, None)]
    ELSE del_face(add_face(add_face(m, <<u, w, o>>), <<w, v, o>>), fkey)

trimesh_split_edge(m, u, v, allow_boundary) ==
    LET fkey_uv == m.halfedge[<<u, v>>]
        fkey_vu == m.halfedge[<<v, u>>]
    IN  IF ~allow_boundary /\ (fkey_uv = None \/ fkey_vu = None) THEN m
        ELSE Then(add_vertex(m, edge_midpoint(m, u, v)),
                  LAMBDA a :
                      split_side(
                          split_side([a.mesh EXCEPT !.halfedge =
                                         Without(Without(@, <<u, v>>), <<v, u>>)],
                                     fkey_uv, u, v, a.key,
                                     IF fkey_uv = None THEN None
                                     ELSE ancestor(m, fkey_uv, u)),
                          fkey_vu, v, u, a.key,
                          IF fkey_vu = None THEN None ELSE ancestor(m, fkey_vu, v)))

\* The vertices opposite the edge (u, v) in its incident triangles.
Opposite(m, u, v) ==
    {ancestor(m, m.halfedge[e], e[1]) :
        e \in {x \in {<<u, v>>, <<v, u>>} : m.halfedge[x] # None}}

\* trimesh_collapse_edge: v is merged into u, which moves to the midpoint.
\* Refused when an endpoint is fixed, when an endpoint is on the boundary
\* unless allow_boundary, and when u and v share a neighbour that is not
\* opposite the edge (the merge would fold the mesh).
trimesh_collapse_edge(m, u, v, allow_boundary, fixed) ==
    IF u \in fixed \/ v \in fixed THEN m
    ELSE IF ~allow_boundary
            /\ (is_vertex_on_boundary(m, u) \/ is_vertex_on_boundary(m, v))
    THEN m
    ELSE IF Nbrs(m, u) \cap Nbrs(m, v) # Opposite(m, u, v) THEN m
    ELSE LET kept == {f \in DOMAIN m.face :
                         ~({u, v} \subseteq Range(m.face[f]))}
             face == [f \in kept |->
                        [i \in 1..Len(m.face[f]) |->
                            IF m.face[f][i] = v THEN u ELSE m.face[f][i]]] @@ <<>>
         IN  [m EXCEPT !.vertex = With(Without(@, v), u, edge_midpoint(m, u, v)),
                       !.face = face,
                       !.halfedge = HalfedgesOf(face)]

\* trimesh_swap_edge: the diagonal (u, v) of the two incident triangles is
\* replaced by the other diagonal.  Refused on a boundary edge, on an edge
\* with an end on the boundary unless allow_boundary, and when the other
\* diagonal is an edge already.
trimesh_swap_edge(m, u, v, allow_boundary) ==
    LET fkey_uv == m.halfedge[<<u, v>>]
        fkey_vu == m.halfedge[<<v, u>>]
    IN  IF fkey_uv = None \/ fkey_vu = None THEN m
        ELSE IF ~allow_boundary
                /\ (is_vertex_on_boundary(m, u) \/ is_vertex_on_boundary(m, v))
        THEN m
        ELSE LET o_uv == ancestor(m, fkey_uv, u)
                 o_vu == ancestor(m, fkey_vu, v)
             IN  IF <<o_uv, o_vu>> \in DOMAIN m.halfedge THEN m
                 ELSE LET m0 == [m EXCEPT !.halfedge =
                                    Without(Without(@, <<u, v>>), <<v, u>>)]
                          m1 == del_face(del_face(m0, fkey_uv), fkey_vu)
                      IN  add_face(add_face(m1, <<o_uv, o_vu, v>>),
                                   <<o_vu, o_uv, u>>)

\* The area of a triangle in the plane z = 0.
triangle_area(a, b, c) ==
    QMul(Q(1, 2),
         QAbs(QSub(QMul(QSub(b[1], a[1]), QSub(c[2], a[2])),
                   QMul(QSub(c[1], a[1]), QSub(b[2], a[2])))))

face_area(m, fkey) ==
    LET f == m.face[fkey]
    IN  triangle_area(m.vertex[f[1]], m.vertex[f[2]], m.vertex[f[3]])

RECURSIVE QSum(_)
QSum(qs) == IF qs = <<>> THEN QI(0) ELSE QAdd(qs[1], QSum(Tail(qs)))

\* Where one pass of smooth_area puts a vertex: halfway to the area-weighted
\* mean of the centroids of its faces.
FaceAreas(m, fkeys) == [i \in 1..Len(fkeys) |-> face_area(m, fkeys[i])]

WeightedCentroids(m, fkeys) ==
    [i \in 1..Len(fkeys) |->
        VScale(face_area(m, fkeys[i]), face_centroid(m, fkeys[i]))]

\* xyz moved halfway to c / A, left alone where the area A is 0.
smooth_towards(xyz, A, c) ==
    IF A = QI(0) THEN xyz
    ELSE VAdd(VScale(Q(1, 2), xyz), VScale(QDiv(Q(1, 2), A), c))

smooth_point(m, key) ==
    LET fkeys == NotNone(vertex_faces(m, key))
    IN  smooth_towards(m.vertex[key], QSum(FaceAreas(m, fkeys)),
                       VSum(WeightedCentroids(m, fkeys)))

\* smooth_area(vertices, faces, adjacency, fixed=fixed, kmax=1): every
\* vertex that is not in fixed moves, all from the positions before the pass.
smooth_area(m, fixed) ==
    [key \in DOMAIN m.vertex |->
        IF key \in fixed THEN m.vertex[key] ELSE smooth_point(m, key)] @@ <<>>

-----------------------------------------------------------------------------
(* trimesh_optimise_topology                                               *)

\* lmin = (1 - tol) * (4.0 / 5.0) * target
opt_lmin(c) == QMul(QMul(QSub(QI(1), c.tol), Q(4, 5)), c.target)

\* lmax = (1 + tol) * (4.0 / 3.0) * target
opt_lmax(c) == QMul(QMul(QAdd(QI(1), c.tol), Q(4, 3)), c.target)

\* target_start = max(edge_lengths) / 2.0
opt_target_start(m) == QMul(QSqrt(MaxLength2(m, edges(m))), Q(1, 2))

\* fac = target_start / target raises ZeroDivisionError when target is 0.
opt_fac_raises(c) == c.target = QI(0)

opt_fac(m, c) == QDiv(opt_target_start(m), c.target)

\* kmax_start = kmax / 2.0, so k <= kmax_start is 2k <= kmax.
opt_in_ramp(c, k) == 2 * k <= c.kmax

\* scale_val = fac * (1.0 - k / kmax_start) while k <= kmax_start, else the
\* increments dlmin and dlmax are 0.
opt_scale_val(c, fac, k) ==
    IF opt_in_ramp(c, k)
    THEN QMul(fac, QSub(QI(1), Q(2 * k, c.kmax)))
    ELSE QI(0)

\* The state of one phase: the mesh, the visited set, the operator calls
\* made so far and the edges the swap phase has weighed.
PhaseStart(m) == [mesh |-> m, visited |-> {}, ops |-> <<>>, tests |-> <<>>]

\* The split step without the test of the visited set.
opt_split_edge_revisits(st, e, c, bound) ==
    IF LengthLe(edge_length2(st.mesh, e[1], e[2]), bound) THEN st
    ELSE [st EXCEPT
             !.mesh = trimesh_split_edge(@, e[1], e[2], c.allow_boundary_split),
             !.visited = @ \cup {e[1], e[2]},
             !.ops = Append(@, <<"split", e[1], e[2]>>)]

opt_split_edge(st, e, c, bound) ==
    IF e[1] \in st.visited \/ e[2] \in st.visited THEN st
    ELSE IF LengthLe(edge_length2(st.mesh, e[1], e[2]), bound) THEN st
    ELSE [st EXCEPT
             !.mesh = trimesh_split_edge(@, e[1], e[2], c.allow_boundary_split),
             !.visited = @ \cup {e[1], e[2]},
             !.ops = Append(@, <<"split", e[1], e[2]>>)]

opt_collapse_edge(st, e, c, bound) ==
    IF e[1] \in st.visited \/ e[2] \in st.visited THEN st
    ELSE IF LengthGe(edge_length2(st.mesh, e[1], e[2]), bound) THEN st
    ELSE Then(trimesh_collapse_edge(st.mesh, e[1], e[2],
                                    c.allow_boundary_collapse, c.fixed),
              LAMBDA m1 :
                  [st EXCEPT
                      !.mesh = m1,
                      !.visited = @ \cup {e[1], e[2]} \cup Nbrs(m1, e[1]),
                      !.ops = Append(@, <<"collapse", e[1], e[2]>>)])

\* The degree of a vertex, plus 2 if it is in the boundary set.
opt_valency(m, key, boundary) ==
    vertex_degree(m, key) + (IF key \in boundary THEN 2 ELSE 0)

opt_current_error(d) ==
    Abs(d[1] - 6) + Abs(d[2] - 6) + Abs(d[3] - 6) + Abs(d[4] - 6)

opt_flipped_error(d) ==
    Abs(d[1] - 7) + Abs(d[2] - 7) + Abs(d[3] - 5) + Abs(d[4] - 5)

\* What the swap phase computes for the edge (u, v) with the opposite
\* vertices v1 and v2, e = <<u, v, v1, v2>>: the valencies and, for the
\* record, the degrees and whether the vertices are on the boundary now.
opt_swap_test(m, e, boundary) ==
    [e |-> e,
     degree |-> [i \in 1..4 |-> vertex_degree(m, e[i])],
     on_boundary |-> [i \in 1..4 |-> is_vertex_on_boundary(m, e[i])],
     valency |-> [i \in 1..4 |-> opt_valency(m, e[i], boundary)]]

\* The phase state st with the test t of an edge on record: whether the
\* swap operator was called, and whether the ends of the edge are visited.
opt_swap_tested(st, t, called) ==
    [st EXCEPT !.tests =
        Append(@, [e |-> t.e, degree |-> t.degree, on_boundary |-> t.on_boundary,
                   valency |-> t.valency, called |-> called,
                   marked |-> {t.e[1], t.e[2]} \subseteq st.visited])]

\* The test without the equality: if current_error < flipped_error.
opt_swap_skips_strict(d) == opt_current_error(d) < opt_flipped_error(d)

\* if current_error <= flipped_error: continue
opt_swap_skips(d) == opt_current_error(d) <= opt_flipped_error(d)

opt_swap_decide(st, c, t) ==
    IF opt_swap_skips(t.valency) THEN opt_swap_tested(st, t, FALSE)
    ELSE opt_swap_tested(
             [st EXCEPT
                 !.mesh = trimesh_swap_edge(@, t.e[1], t.e[2], c.allow_boundary_swap),
                 !.visited = @ \cup {t.e[1], t.e[2]},
                 !.ops = Append(@, <<"swap", t.e[1], t.e[2]>>)],
             t, TRUE)

opt_swap_edge(st, e, c, boundary) ==
    LET u == e[1]
        v == e[2]
        m == st.mesh
        f1 == m.halfedge[<<u, v>>]
        f2 == m.halfedge[<<v, u>>]
    IN  IF u \in st.visited \/ v \in st.visited THEN st
        ELSE IF f1 = None \/ f2 = None THEN st
        ELSE opt_swap_decide(
                 st, c,
                 opt_swap_test(m, <<u, v, ancestor(m, f1, u), ancestor(m, f2, v)>>,
                               boundary))

\* for u, v in mesh.edges(): one of the three phases over the edges.
RECURSIVE opt_phase(_, _, _, _, _, _)
opt_phase(st, es, count, c, bounds, boundary) ==
    IF Len(es) = 0 THEN st
    ELSE IF Len(es) = 1
    THEN CASE count = 1 -> opt_split_edge(st, es[1], c, bounds.split)
           [] count = 2 -> opt_collapse_edge(st, es[1], c, bounds.collapse)
           [] OTHER -> opt_swap_edge(st, es[1], c, boundary)
    ELSE Then(opt_phase(st, FirstHalf(es), count, c, bounds, boundary),
              LAMBDA s1 : opt_phase(s1, SecondHalf(es), count, c, bounds, boundary))

opt_phase_name(count) ==
    CASE count = 1 -> "split"
      [] count = 2 -> "collapse"
      [] count = 3 -> "swap"
      [] OTHER -> "none"

\* abs(1 - num_vertices_1 / num_vertices_2) < divergence and k > kmax_start
opt_converged(c, k, num_vertices_1, num_vertices_2) ==
    /\ QLt(QAbs(QSub(QI(1), Q(num_vertices_1, num_vertices_2))), c.divergence)
    /\ 2 * k > c.kmax

\* The increments taken the other way: lmax - dlmax and lmin + dlmin.
opt_bounds_inwards(o, scale_val) ==
    [split |-> QSub(o.lmax, QMul(o.lmax, scale_val)),
     collapse |-> QAdd(o.lmin, QMul(o.lmin, scale_val))]

\* lmax + dlmax and lmin - dlmin in round k.
opt_bounds(o, scale_val) ==
    [split |-> QAdd(o.lmax, QMul(o.lmax, scale_val)),
     collapse |-> QSub(o.lmin, QMul(o.lmin, scale_val))]

\* if k % 20 == 0: num_vertices_1 = len(mesh.vertex)
opt_num_vertices_1(m, o) ==
    IF o.k % 20 = 0 THEN Cardinality(DOMAIN m.vertex) ELSE o.num_vertices_1

\* The phase of a round: count 1, 2, 3 is split, collapse, swap; on 4 the
\* counter is reset and no edge is touched.
opt_round_phase(m, c, o, count) ==
    IF count \in {1, 2, 3}
    THEN opt_phase(PhaseStart(m), edges(m), count, c,
                   opt_bounds(o, opt_scale_val(c, o.fac, o.k)), o.boundary)
    ELSE PhaseStart(m)

\* The check made in every round instead of in rounds 10, 30, ...
opt_stops_any_round(m, c, o, m1) ==
    opt_converged(c, o.k, opt_num_vertices_1(m, o), Cardinality(DOMAIN m1.vertex))

\* if (k - 10) % 20 == 0: ... break
opt_stops(m, c, o, m1) ==
    /\ (o.k - 10) % 20 = 0
    /\ opt_converged(c, o.k, opt_num_vertices_1(m, o), Cardinality(DOMAIN m1.vertex))

\* The counter left as it is after the fourth round.
opt_count_kept(count) == count

\* else: count = 0
opt_count(count) == IF count \in {1, 2, 3} THEN count ELSE 0

\* The rest of a round after its phase ph: unless the loop stops, the
\* boundary set is refreshed and the mesh smoothed if smooth, and the
\* callback is called if there is one.
opt_round_end(m, c, o, count, ph, stop) ==
    LET boundary == IF c.smooth /\ ~stop THEN vertices_on_boundary(ph.mesh)
                    ELSE o.boundary
    IN  [mesh |-> IF c.smooth /\ ~stop
                  THEN [ph.mesh EXCEPT !.vertex = smooth_area(ph.mesh, boundary)]
                  ELSE ph.mesh,
         stop |-> stop,
         opt |-> [o EXCEPT !.k = o.k + 1,
                           !.count = opt_count(count),
                           !.num_vertices_1 = opt_num_vertices_1(m, o),
                           !.boundary = boundary,
                           !.phase = opt_phase_name(count),
                           !.ops = ph.ops,
                           !.tests = ph.tests,
                           !.stopped = stop,
                           !.swaps = IF count = 3 THEN @ + Len(ph.ops) ELSE @,
                           !.rounds = o.rounds + 1,
                           !.smoothed = c.smooth /\ ~stop,
                           !.before_smooth = ph.mesh.vertex,
                           !.callbacks = IF c.callback /\ ~stop
                                         THEN Append(o.callbacks, o.k)
                                         ELSE o.callbacks]]

\* One pass of the loop body for round k.
opt_round(m, c, o) ==
    Then(opt_round_phase(m, c, o, o.count + 1),
         LAMBDA ph : opt_round_end(m, c, o, o.count + 1, ph,
                                   opt_stops(m, c, o, ph.mesh)))

-----------------------------------------------------------------------------
(* The optimiser's callers: a planar triangle mesh, a configuration, one   *)
(* call; a state after every round, where the callback sees the mesh.      *)

\* The docstring's fan with its centre off the middle.
SkewFan4 ==
    from_vertices_and_faces(
        <<P(0, 0, 0), P(10, 0, 0), P(10, 10, 0), P(0, 10, 0), P(4, 5, 0)>>,
        <<<<0, 1, 4>>, <<1, 2, 4>>, <<2, 3, 4>>, <<3, 0, 4>>>>)

\* Three by two cells of 3 x 4, each cut by its diagonal of length 5: two
\* vertices in the interior.
Grid ==
    from_vertices_and_faces(
        <<P(0, 0, 0), P(3, 0, 0), P(6, 0, 0), P(9, 0, 0),
          P(0, 4, 0), P(3, 4, 0), P(6, 4, 0), P(9, 4, 0),
          P(0, 8, 0), P(3, 8, 0), P(6, 8, 0), P(9, 8, 0)>>,
        <<<<0, 1, 5>>, <<0, 5, 4>>, <<1, 2, 6>>, <<1, 6, 5>>,
          <<2, 3, 7>>, <<2, 7, 6>>, <<4, 5, 9>>, <<4, 9, 8>>,
          <<5, 6, 10>>, <<5, 10, 9>>, <<6, 7, 11>>, <<6, 11, 10>>>>)

\* A vertex 1 of degree 7 beside the interior vertices 0, 2 and 3 of degree
\* 5: every edge is between 3 and 5 long, and the other diagonal (2, 3) of
\* the two triangles on the edge (0, 1) is 6 long.
Wheel7 ==
    from_vertices_and_faces(
        <<P(0, 3, 0), P(0, 0, 0), P(-3, 2, 0), P(3, 2, 0),
          P(-4, -1, 0), P(-2, -4, 0), P(2, -4, 0), P(4, -1, 0),
          P(-2, 6, 0), P(2, 6, 0), P(-6, 3, 0), P(6, 3, 0)>>,
        <<<<1, 0, 2>>, <<1, 2, 4>>, <<1, 4, 5>>, <<1, 5, 6>>,
          <<1, 6, 7>>, <<1, 7, 3>>, <<1, 3, 0>>,
          <<0, 3, 9>>, <<0, 9, 8>>, <<0, 8, 2>>,
          <<2, 8, 10>>, <<2, 10, 4>>, <<3, 7, 11>>, <<3, 11, 9>>>>)

OptMeshes == {Fan4, SkewFan4, Grid, Wheel7}

\* The largest iteration cap of a call.
MaxKmax == 4

Targets == {Q(-1, 1), QI(0), Q(1, 2), QI(2), QI(5)}
Tols == {Q(1, 10), Q(3, 2)}

\* The vertices a caller fixes: none, or the interior ones.
OptFixedSets(m) == {{}, (DOMAIN m.vertex) \ vertices_on_boundary(m)}

AllConfigs(m) ==
    [target : Targets, tol : Tols, kmax : 0..MaxKmax,
     divergence : {Q(1, 100)}, smooth : BOOLEAN, callback : BOOLEAN,
     allow_boundary_split : BOOLEAN, allow_boundary_swap : BOOLEAN,
     allow_boundary_collapse : BOOLEAN, fixed : OptFixedSets(m)]

\* An iteration cap that round 10, the first with a convergence check, is
\* past the half of, and one that it is not.
StopKmax == 12
LongKmax == 20

Divergences == {Q(1, 100), Q(1, 2)}
LongTargets == {QI(4), QI(5), QI(8)}

\* The short calls: the boundary flags all set or all clear, and smoothing
\* with a target of 1 or more (a smaller one splits so much that the
\* smoothed coordinates outgrow the integers).
ShortConfigs(m) ==
    {c \in AllConfigs(m) :
        /\ c.allow_boundary_swap = c.allow_boundary_split
        /\ c.allow_boundary_collapse = c.allow_boundary_split
        /\ c.smooth => QLe(QI(1), c.target)}

\* The long calls, which reach the convergence check: a callback, no
\* smoothing, nothing fixed.
LongConfigs(m) ==
    {c \in [target : LongTargets, tol : {Q(1, 10)}, kmax : {StopKmax, LongKmax},
            divergence : Divergences, smooth : {FALSE}, callback : {TRUE},
            allow_boundary_split : BOOLEAN, allow_boundary_swap : BOOLEAN,
            allow_boundary_collapse : BOOLEAN, fixed : {{}}] :
        /\ c.allow_boundary_swap = c.allow_boundary_split
        /\ c.allow_boundary_collapse = c.allow_boundary_split}

\* The configurations tried on a mesh; Wheel7 gets the long calls only.
OptConfigs(m) ==
    (IF m = Wheel7 THEN {} ELSE ShortConfigs(m)) \cup LongConfigs(m)

\* target > 0, 0 <= tol < 1 and kmax >= 2.
ValidConfig(c) ==
    /\ QLt(QI(0), c.target)
    /\ QLe(QI(0), c.tol) /\ QLt(c.tol, QI(1))
    /\ c.kmax >= 2

OptInit ==
    /\ orig \in OptMeshes
    /\ heap = [r \in {InputRef} |-> orig]
    /\ pc = "ready"
    /\ call = NoCall
    /\ result = None
    /\ raised = NoExc
    /\ opt = OptIdle
    /\ xf = XIdle

\* The call, up to the loop: lines 145-156.
OptCall(c) ==
    /\ pc = "ready"
    /\ call' = c
    /\ IF opt_fac_raises(c)
       THEN /\ pc' = "raised"
            /\ raised' = "ZeroDivisionError"
            /\ opt' = OptIdle
       ELSE /\ pc' = "loop"
            /\ raised' = NoExc
            /\ opt' = [state |-> "running", k |-> 0, count |-> 0, rounds |-> 0,
                       lmin |-> opt_lmin(c), lmax |-> opt_lmax(c),
                       fac |-> opt_fac(heap[InputRef], c),
                       boundary |-> vertices_on_boundary(heap[InputRef]),
                       num_vertices_1 |-> None, phase |-> "none", ops |-> <<>>,
                       swaps |-> 0, tests |-> <<>>, stopped |-> FALSE,
                       smoothed |-> FALSE,
                       before_smooth |-> heap[InputRef].vertex,
                       callbacks |-> <<>>]
    /\ UNCHANGED <<heap, orig, result, xf>>

\* The state after a round r.
OptStep(r) ==
    /\ heap' = Upd(heap, InputRef, r.mesh)
    /\ opt' = r.opt
    /\ pc' = IF r.stop THEN "returned" ELSE "loop"
    /\ UNCHANGED <<orig, call, result, raised, xf>>

\* One round of the loop; the convergence check may end the call.
OptRound ==
    /\ pc = "loop"
    /\ opt.k < call.kmax
    /\ OptStep(opt_round(heap[InputRef], call, opt))

\* The loop has run kmax rounds: the call returns None.
OptReturn ==
    /\ pc = "loop"
    /\ opt.k >= call.kmax
    /\ pc' = "returned"
    /\ UNCHANGED <<heap, orig, call, result, raised, opt, xf>>

OptNext ==
    \/ \E c \in OptConfigs(orig) : OptCall(c)
    \/ OptRound
    \/ OptReturn

OptSpec == OptInit /\ [][OptNext]_vars

-----------------------------------------------------------------------------
(* XFunc: a function run in an external process.  The parent writes the    *)
(* arguments to a file, starts the process and reads its output line by    *)
(* line for as long as it runs; the process writes what the function       *)
(* returned, or the traceback, to a second file, which the parent reads.   *)

\* Python values: None, a str, and what the wrapped function returns.
PyNone == [type |-> "NoneType", items |-> <<>>]
PyStr(s) == [type |-> "str", items |-> <<s>>]
PyValues ==
    {PyNone, [type |-> "int", items |-> <<1>>],
     [type |-> "list", items |-> <<1, 2>>], [type |-> "tuple", items |-> <<1, 2>>]}

\* if self.error:
Truthy(v) == v # PyNone /\ v # PyStr("")

\* json.dump: None is null, a list and a tuple are both an array.
json_dump(v) ==
    [json |-> CASE v.type = "NoneType" -> "null"
                [] v.type = "int" -> "number"
                [] v.type = "str" -> "string"
                [] OTHER -> "array",
     items |-> v.items]

\* json.load: an array is a list.
json_load(j) ==
    [type |-> CASE j.json = "null" -> "NoneType"
                [] j.json = "number" -> "int"
                [] j.json = "string" -> "str"
                [] OTHER -> "list",
     items |-> j.items]

\* str.strip: without the white space at both ends.
Whitespace == {" ", "\n"}

RECURSIVE lstrip(_)
lstrip(s) == IF s # <<>> /\ s[1] \in Whitespace THEN lstrip(Tail(s)) ELSE s

RECURSIVE rstrip(_)
rstrip(s) ==
    IF s # <<>> /\ s[Len(s)] \in Whitespace
    THEN rstrip(SubSeq(s, 1, Len(s) - 1))
    ELSE s

strip(s) == rstrip(lstrip(s))

\* The most lines a wrapped function prints.
MaxLines == 2

\* What a wrapped function prints, a line at a time, and how it ends: it
\* returns a value, raises an exception, or leaves by sys.exit.
Texts == {<<"a">>, <<"b">>, <<" ", "b">>}
Scripts == UNION {[1..n -> Texts] : n \in 0..MaxLines}
Outcomes ==
    [kind : {"returns"}, value : PyValues]
        \cup [kind : {"raises", "exits"}, value : {PyNone}]

XConfigs == [callback : BOOLEAN, script : Scripts, outcome : Outcomes]

\* The odict of the wrapper.
wrapper_odict(outcome) ==
    IF outcome.kind = "raises"
    THEN [error |-> json_dump(PyStr("Traceback")),
          data |-> json_dump(PyNone),
          profile |-> json_dump(PyNone)]
    ELSE [error |-> json_dump(PyNone),
          data |-> json_dump(outcome.value),
          profile |-> json_dump(PyStr("profile"))]

XInit ==
    /\ orig = EmptyMesh
    /\ heap = [r \in {InputRef} |-> orig]
    /\ pc = "ready"
    /\ call = NoCall
    /\ result = None
    /\ raised = NoExc
    /\ opt = OptIdle
    /\ xf = XIdle

\* XFunc(funcname, callback=...)(*args): the object is made, the two files
\* are written and the process is started.
XCall(c) ==
    /\ pc = "ready"
    /\ pc' = "xecute"
    /\ call' = c
    /\ xf' = [state |-> "called", callback |-> c.callback,
              data |-> PyNone, profile |-> PyNone, error |-> PyNone,
              ipath |-> <<"idict">>, opath |-> <<>>,
              child |-> "running", written |-> 0, stdout |-> <<>>,
              parent |-> "poll", callbacks |-> <<>>, returned |-> PyNone]
    /\ UNCHANGED <<heap, orig, result, raised, opt>>

\* The wrapped function prints its next line; the process runs unbuffered.
ChildPrint ==
    /\ pc = "xecute"
    /\ xf.child = "running"
    /\ xf.written < Len(call.script)
    /\ xf' = [xf EXCEPT !.written = @ + 1,
                        !.stdout = Append(@, call.script[xf.written + 1] \o <<"\n">>)]
    /\ UNCHANGED <<heap, orig, pc, call, result, raised, opt>>

\* The wrapped function has returned or raised an Exception: the wrapper
\* writes odict to opath.
ChildDump ==
    /\ pc = "xecute"
    /\ xf.child = "running"
    /\ xf.written = Len(call.script)
    /\ call.outcome.kind # "exits"
    /\ xf.opath = <<>>
    /\ xf' = [xf EXCEPT !.opath = <<wrapper_odict(call.outcome)>>]
    /\ UNCHANGED <<heap, orig, pc, call, result, raised, opt>>

\* The process ends: after the wrapper's last line, or by SystemExit, which
\* 'except Exception' does not catch.
ChildExit ==
    /\ pc = "xecute"
    /\ xf.child = "running"
    /\ xf.written = Len(call.script)
    /\ call.outcome.kind = "exits" \/ xf.opath # <<>>
    /\ xf' = [xf EXCEPT !.child = "exited"]
    /\ UNCHANGED <<heap, orig, pc, call, result, raised, opt>>

\* while process.poll() is None:
ParentPoll ==
    /\ pc = "xecute"
    /\ xf.parent = "poll"
    /\ xf' = [xf EXCEPT !.parent = IF xf.child = "running" THEN "readline"
                                   ELSE "load"]
    /\ UNCHANGED <<heap, orig, pc, call, result, raised, opt>>

\* What readline returns: the next line, or '' at the end of the output.
readline(stdout) == IF stdout = <<>> THEN <<>> ELSE Head(stdout)

\* line = process.stdout.readline().strip() and the callback: readline
\* waits for a line or for the end of the output.
ParentReadline ==
    /\ pc = "xecute"
    /\ xf.parent = "readline"
    /\ xf.stdout # <<>> \/ xf.child = "exited"
    /\ xf' = [xf EXCEPT !.stdout = IF @ = <<>> THEN @ ELSE Tail(@),
                        !.callbacks = IF xf.callback
                                      THEN Append(@, strip(readline(xf.stdout)))
                                      ELSE @,
                        !.parent = "poll"]
    /\ UNCHANGED <<heap, orig, pc, call, result, raised, opt>>

\* The attributes, the files and the way out after json.load of odict.
xecute_end(x, data, profile, error) ==
    [x EXCEPT !.data = data, !.profile = profile, !.error = error,
              !.ipath = <<>>, !.opath = <<>>, !.parent = "done",
              !.returned = IF Truthy(error) THEN PyNone ELSE data]

\* After the loop: json.load of opath, which fails on an empty file; the
\* attributes are set, the files deleted, and the call raises if there is
\* an error and returns the data otherwise.
ParentLoad ==
    /\ pc = "xecute"
    /\ xf.parent = "load"
    /\ IF xf.opath = <<>>
       THEN /\ xf' = [xf EXCEPT !.parent = "done"]
            /\ pc' = "raised"
            /\ raised' = "ValueError"
       ELSE /\ xf' = xecute_end(xf, json_load(xf.opath[1].data),
                                json_load(xf.opath[1].profile),
                                json_load(xf.opath[1].error))
            /\ pc' = IF Truthy(json_load(xf.opath[1].error)) THEN "raised"
                     ELSE "returned"
            /\ raised' = IF Truthy(json_load(xf.opath[1].error)) THEN "Exception"
                         ELSE NoExc
    /\ UNCHANGED <<heap, orig, call, result, opt>>

XNext ==
    \/ \E c \in XConfigs : XCall(c)
    \/ ChildPrint
    \/ ChildDump
    \/ ChildExit
    \/ ParentPoll
    \/ ParentReadline
    \/ ParentLoad

XSpec == XInit /\ [][XNext]_vars

-----------------------------------------------------------------------------
(* Measures of a mesh, for the properties below.                           *)

NumVertices(m) == Cardinality(DOMAIN m.vertex)
NumFaces(m) == Cardinality(DOMAIN m.face)
EdgeSet(m) == {{e[1], e[2]} : e \in DOMAIN m.halfedge}
NumEdges(m) == Cardinality(EdgeSet(m))

RECURSIVE SumLen(_, _)
SumLen(face, fkeys) ==
    IF fkeys = {} THEN 0
    ELSE LET f == CHOOSE x \in fkeys : TRUE
         IN  Len(face[f]) + SumLen(face, fkeys \ {f})

SumFaceDegrees(m) == SumLen(m.face, DOMAIN m.face)

InteriorVertices(m) == (DOMAIN m.vertex) \ vertices_on_boundary(m)

InteriorEdges(m) ==
    {{e[1], e[2]} : e \in {x \in DOMAIN m.halfedge :
                              /\ m.halfedge[x] # None
                              /\ m.halfedge[<<x[2], x[1]>>] # None}}

IsClosedTriMesh(m) ==
    /\ \A e \in DOMAIN m.halfedge : m.halfedge[e] # None
    /\ \A f \in DOMAIN m.face : Len(m.face[f]) = 3

\* Two vertex cycles that are the same face up to rotation.
SameCycle(a, b) ==
    /\ Len(a) = Len(b)
    /\ \E r \in 0..(Len(a) - 1) :
          \A i \in 1..Len(a) : b[i] = a[((i - 1 + r) % Len(a)) + 1]

Returned == pc = "returned"

\* The mesh the call returned.
Result == heap[result]

-----------------------------------------------------------------------------
(* Properties of the subdivision operators.                                *)

\* C1: when a call of any of the six operators returns (or raises), the
\* caller's mesh is what it was before the call: vertices, coordinates,
\* faces and half-edges.
C1_InputUnchanged ==
    pc \in {"returned", "raised"} => heap[InputRef] = orig

\* C1 witness: a call with k >= 1 returned a refined mesh in another object.
C1_Witness ==
    /\ Returned
    /\ call.k >= 1
    /\ result # InputRef
    /\ NumFaces(Result) > NumFaces(orig)
    /\ heap[InputRef] = orig

\* C2 (as claimed): with k = 0 every operator returns a copy: an object
\* other than the caller's mesh, with the same vertices, coordinates and
\* faces, so that a change made to the result leaves the caller's mesh as
\* it was.
C2_ZeroLevelsReturnsCopy ==
    /\ (Returned /\ call.k = 0) =>
          /\ result # InputRef
          /\ Result.vertex = orig.vertex
          /\ NumFaces(Result) = NumFaces(orig)
    /\ (pc = "mutated" /\ call.k = 0) => heap[InputRef] = orig

\* C2 witness: a call with k = 0 returned the caller's own mesh, and the
\* caller's edit of the result changed that mesh.
C2_Witness ==
    /\ pc = "mutated"
    /\ call.k = 0
    /\ result = InputRef
    /\ heap[InputRef] # orig

\* C3: one level of quad split or of Catmull-Clark gives V + E + F vertices
\* and sum-of-face-degrees faces, all quads, one per corner of an original
\* face (each holds exactly one original vertex).
C3_QuadCounts ==
    (/\ Returned
     /\ call.invoked \in {"mesh_subdivide_quad", "mesh_subdivide_catmullclark"}
     /\ call.k = 1) =>
        /\ NumVertices(Result) = NumVertices(orig) + NumEdges(orig) + NumFaces(orig)
        /\ NumFaces(Result) = SumFaceDegrees(orig)
        /\ \A f \in DOMAIN Result.face :
              /\ Len(Result.face[f]) = 4
              /\ Cardinality(Range(Result.face[f]) \cap DOMAIN orig.vertex) = 1

\* C3 witness: Catmull-Clark, one level, on the cube: 8 + 12 + 6 vertices.
C3_Witness ==
    /\ Returned
    /\ call.invoked = "mesh_subdivide_catmullclark"
    /\ call.k = 1
    /\ orig = Cube
    /\ NumVertices(Result) = 26
    /\ NumFaces(Result) = 24

SingleQuadCall ==
    /\ Returned
    /\ call.invoked = "mesh_subdivide_quad"
    /\ call.k = 1
    /\ orig = SingleQuad

\* The vertices of the result at the centroid of the single quad.
CentreVertices ==
    {v \in DOMAIN Result.vertex : Result.vertex[v] = face_centroid(orig, 0)}

\* C4 (as claimed): quad split, one level, of a single quad gives 5
\* vertices and 4 quads that all hold the centre vertex.
C4_SingleQuadFiveVertices ==
    SingleQuadCall =>
        /\ NumVertices(Result) = 5
        /\ NumFaces(Result) = 4
        /\ \A f \in DOMAIN Result.face : Len(Result.face[f]) = 4
        /\ \E c \in CentreVertices :
              \A f \in DOMAIN Result.face : c \in Range(Result.face[f])

\* C4 (amended): quad split, one level, of a single quad gives 9 vertices
\* (the 4 original ones, unmoved, 4 edge midpoints and 1 centre vertex)
\* and 4 quads that all hold the centre vertex.
C4_SingleQuadNineVertices ==
    SingleQuadCall =>
        /\ NumVertices(Result) = 9
        /\ \A v \in DOMAIN orig.vertex :
              v \in DOMAIN Result.vertex /\ Result.vertex[v] = orig.vertex[v]
        /\ Cardinality({v \in DOMAIN Result.vertex :
                           \E e \in DOMAIN orig.halfedge :
                               Result.vertex[v] = edge_midpoint(orig, e[1], e[2])}) = 4
        /\ Cardinality(CentreVertices) = 1
        /\ NumFaces(Result) = 4
        /\ \A f \in DOMAIN Result.face : Len(Result.face[f]) = 4
        /\ \E c \in CentreVertices :
              \A f \in DOMAIN Result.face : c \in Range(Result.face[f])

\* C4 witness: the single quad was split, directly or through mesh_subdivide.
C4_Witness == SingleQuadCall /\ NumVertices(Result) = 9

\* C5: one level of Loop on a closed triangle mesh with F faces gives 4F
\* faces, all triangles (per original face one centre triangle of new
\* vertices and three corner triangles, each with one original vertex), and
\* none of the original faces (key or cycle).
C5_LoopFaces ==
    (/\ Returned
     /\ call.invoked = "trimesh_subdivide_loop"
     /\ call.k = 1
     /\ IsClosedTriMesh(orig)) =>
        /\ NumFaces(Result) = 4 * NumFaces(orig)
        /\ \A f \in DOMAIN Result.face : Len(Result.face[f]) = 3
        /\ Cardinality({f \in DOMAIN Result.face :
               Range(Result.face[f]) \cap DOMAIN orig.vertex = {}}) = NumFaces(orig)
        /\ Cardinality({f \in DOMAIN Result.face :
               Cardinality(Range(Result.face[f]) \cap DOMAIN orig.vertex) = 1})
              = 3 * NumFaces(orig)
        /\ (DOMAIN Result.face) \cap (DOMAIN orig.face) = {}
        /\ \A f \in DOMAIN Result.face, g \in DOMAIN orig.face :
              ~SameCycle(Result.face[f], orig.face[g])

\* C5 witness: Loop, one level, on the bipyramid: 24 triangles.
C5_Witness ==
    /\ Returned
    /\ call.invoked = "trimesh_subdivide_loop"
    /\ call.k = 1
    /\ orig = Bipyramid
    /\ NumFaces(Result) = 24

\* C6: one level of Doo-Sabin gives sum-of-face-degrees vertices and
\* |F| + |interior vertices| + |interior edges| faces: none for a boundary
\* vertex, none for a boundary edge.
C6_DooSabinCounts ==
    (/\ Returned
     /\ call.invoked = "mesh_subdivide_doosabin"
     /\ call.k = 1) =>
        /\ NumVertices(Result) = SumFaceDegrees(orig)
        /\ NumFaces(Result) = NumFaces(orig)
                              + Cardinality(InteriorVertices(orig))
                              + Cardinality(InteriorEdges(orig))

\* C6 witness: Doo-Sabin, one level, on a mesh with interior and boundary
\* vertices and edges (the fan: 12 vertices, 4 + 1 + 4 faces).
C6_Witness ==
    /\ Returned
    /\ call.invoked = "mesh_subdivide_doosabin"
    /\ call.k = 1
    /\ orig = Fan4
    /\ NumVertices(Result) = 12
    /\ NumFaces(Result) = 9

RecognisedSchemes == {"tri", "quad", "corner", "catmullclark", "doosabin"}

Rounds == IF opt = OptIdle THEN 0 ELSE opt.rounds

\* C8 (as claimed): a call of trimesh_optimise_topology with target <= 0,
\* tol outside [0, 1) or kmax < 2 ends in an error before anything is done:
\* no round runs and the mesh stays what it was.
C8_InvalidConfigFailsFast ==
    (pc # "ready" /\ ~ValidConfig(call)) =>
        /\ pc = "raised"
        /\ raised # NoExc
        /\ Rounds = 0
        /\ heap[InputRef] = orig

\* C8 witness: a call with an invalid configuration returned without an
\* error, after a round that changed the mesh.
C8_Witness ==
    /\ pc = "returned"
    /\ ~ValidConfig(call)
    /\ raised = NoExc
    /\ Rounds >= 1
    /\ heap[InputRef] # orig

\* C9 (as claimed): after the smoothing step of a round, every vertex of
\* the caller's fixed set is where it was before that step.
C9_FixedExemptFromSmoothing ==
    (pc \in {"loop", "returned"} /\ opt.smoothed) =>
        \A v \in call.fixed \cap DOMAIN opt.before_smooth :
            heap[InputRef].vertex[v] = opt.before_smooth[v]

\* C9 witness: a smoothing step left the boundary vertices in place and
\* moved a vertex of the caller's fixed set that is not on the boundary.
C9_Witness ==
    /\ pc \in {"loop", "returned"}
    /\ opt.smoothed
    /\ \A v \in opt.boundary : heap[InputRef].vertex[v] = opt.before_smooth[v]
    /\ \E v \in call.fixed \ opt.boundary :
          heap[InputRef].vertex[v] # opt.before_smooth[v]

\* C10: after Catmull-Clark with k >= 1, every vertex of the fixed set is
\* in the result under its key with the coordinates it had in the input.
C10_FixedUnmoved ==
    (/\ Returned
     /\ call.invoked = "mesh_subdivide_catmullclark"
     /\ call.k >= 1) =>
        \A v \in call.fixed :
            v \in DOMAIN Result.vertex /\ Result.vertex[v] = orig.vertex[v]

\* C10 witness: a fixed vertex kept its place while a vertex that is not
\* fixed was moved by the stencil.
C10_Witness ==
    /\ Returned
    /\ call.invoked = "mesh_subdivide_catmullclark"
    /\ call.k >= 1
    /\ call.fixed # {}
    /\ \A v \in call.fixed : Result.vertex[v] = orig.vertex[v]
    /\ \E v \in (DOMAIN orig.vertex) \ call.fixed :
          Result.vertex[v] # orig.vertex[v]

\* C11 (as claimed): after Loop subdivision with k >= 1, every vertex of the
\* fixed set has in the result the coordinates it had in the input.
C11_LoopFixedUnmoved ==
    (/\ Returned
     /\ call.invoked = "trimesh_subdivide_loop"
     /\ call.k >= 1) =>
        \A v \in call.fixed :
            v \in DOMAIN Result.vertex /\ Result.vertex[v] = orig.vertex[v]

\* C11 witness: Loop returned with a vertex of the fixed set moved by the
\* stencil, exactly as it moves that vertex when nothing is fixed.
C11_Witness ==
    /\ Returned
    /\ call.invoked = "trimesh_subdivide_loop"
    /\ call.k = 1
    /\ \E v \in call.fixed :
          /\ Result.vertex[v] # orig.vertex[v]
          /\ Result.vertex[v] = loop_vertex_point(orig, v, orig.vertex)

\* The round indices 0, 1, ..., n - 1 in order.
RoundIndices(n) == [i \in 1..n |-> i - 1]

\* The optimiser has a call under way or behind it.
OptCalled == opt # OptIdle

\* C12 (as claimed): with a callback, the callback has been called once for
\* every round executed so far, with the round indices 0, 1, 2, ... in order,
\* also when the convergence check ends the call.
C12_CallbackEveryRound ==
    (OptCalled /\ call.callback) => opt.callbacks = RoundIndices(opt.rounds)

\* C12 witness: the convergence check ended the call in round 10, after the
\* swap phase of that round, and the callback was called for rounds 0 to 9
\* only.
C12_Witness ==
    /\ OptCalled /\ call.callback /\ Returned
    /\ opt.rounds = 11 /\ opt.rounds < call.kmax
    /\ opt.phase = "swap"
    /\ opt.callbacks = RoundIndices(10)

\* Every edge of the mesh is at least lmin and at most lmax long.
EdgesInRange(m, lmin, lmax) ==
    \A e \in DOMAIN m.halfedge :
        /\ LengthGe(edge_length2(m, e[1], e[2]), lmin)
        /\ LengthLe(edge_length2(m, e[1], e[2]), lmax)

\* A call without smoothing and without boundary operations on a mesh whose
\* edges all lie within [lmin, lmax].
StableCall ==
    /\ OptCalled
    /\ ~call.smooth
    /\ ~call.allow_boundary_split
    /\ ~call.allow_boundary_swap
    /\ ~call.allow_boundary_collapse
    /\ EdgesInRange(orig, opt.lmin, opt.lmax)

SameCounts ==
    /\ NumVertices(heap[InputRef]) = NumVertices(orig)
    /\ NumFaces(heap[InputRef]) = NumFaces(orig)

\* C13 (as claimed): on a mesh whose edges all lie within [lmin, lmax], with
\* no boundary operation allowed and without smoothing, the number of
\* vertices and the number of faces are after every round what they were at
\* the start, for any kmax.
C13_Stable == StableCall => SameCounts

\* C13 (amended): under the same conditions the two counts are what they
\* were at the start for as long as the swap operator has not been called; a
\* swap can leave an edge longer than lmax or shorter than lmin, which a
\* later split or collapse phase acts on.
C13_StableUntilSwap == (StableCall /\ opt.swaps = 0) => SameCounts

\* C13 witness: a stable call has run all its 20 rounds, five of them split
\* phases and five collapse phases, without a swap, and the counts are the
\* initial ones.
C13_Witness ==
    /\ StableCall /\ Returned
    /\ opt.rounds = LongKmax
    /\ opt.swaps = 0
    /\ SameCounts

\* A stable call in which a swap made an edge that a later split phase
\* split: one vertex and two faces more than at the start.
C13_SwapThenSplit ==
    /\ StableCall
    /\ opt.swaps > 0
    /\ opt.phase = "split" /\ Len(opt.ops) > 0
    /\ NumVertices(heap[InputRef]) = NumVertices(orig) + 1
    /\ NumFaces(heap[InputRef]) = NumFaces(orig) + 2

\* The two errors of the swap rule, from the valencies d of u, v, v1, v2.
ErrorNow(d) == Abs(d[1] - 6) + Abs(d[2] - 6) + Abs(d[3] - 6) + Abs(d[4] - 6)
ErrorSwapped(d) == Abs(d[1] - 7) + Abs(d[2] - 7) + Abs(d[3] - 5) + Abs(d[4] - 5)

\* The edges weighed by the swap phase of the round just run.
SwapTests == IF OptCalled THEN {opt.tests[i] : i \in 1..Len(opt.tests)} ELSE {}

\* C14: in a swap phase, for an unvisited edge with two faces the swap
\* operator is called exactly when the error after the swap is strictly
\* lower than the error now; when the two are equal no swap is attempted and
\* the ends of the edge are not marked visited.
C14_SwapIffStrictlyLower ==
    \A t \in SwapTests :
        /\ t.called <=> ErrorSwapped(t.valency) < ErrorNow(t.valency)
        /\ ErrorSwapped(t.valency) = ErrorNow(t.valency) =>
               ~t.called /\ ~t.marked

\* C14 witness: one swap phase weighed an edge with equal errors, which it
\* left alone and unmarked, and an edge with a lower error after the swap,
\* for which it called the swap operator.
C14_Witness ==
    /\ OptCalled /\ opt.phase = "swap"
    /\ \E t \in SwapTests :
           /\ ErrorSwapped(t.valency) = ErrorNow(t.valency)
           /\ ~t.called /\ ~t.marked
    /\ \E t \in SwapTests :
           /\ ErrorSwapped(t.valency) < ErrorNow(t.valency)
           /\ t.called /\ <<"swap", t.e[1], t.e[2]>> \in Range(opt.ops)

\* No two of the operator calls share an end of their edges.
DisjointOps(ops) ==
    \A i, j \in 1..Len(ops) :
        i < j => {ops[i][2], ops[i][3]} \cap {ops[j][2], ops[j][3]} = {}

C15_CollapseTwice ==
    /\ OptCalled /\ opt.phase = "collapse"
    /\ Len(opt.ops) >= 2
    /\ NumVertices(heap[InputRef]) < NumVertices(orig)
    /\ DisjointOps(opt.ops)

\* A round has been run; LastK is its index.
RoundRun == OptCalled /\ opt.rounds > 0
LastK == opt.k - 1

\* | 1 - a / b | < divergence
RatioWithin(a, b) == QLt(QAbs(QSub(QI(1), Q(a, b))), call.divergence)

\* The round just run is one with a check, (k - 10) mod 20 = 0, past the
\* half of kmax.
CheckRound == (LastK - 10) % 20 = 0 /\ 2 * LastK > call.kmax

\* The call ends by the check or after kmax rounds, never otherwise.
EndsByCheckOrKmax == (RoundRun /\ Returned) => (opt.stopped \/ opt.rounds = call.kmax)

\* C16 (as claimed): the call stops early in round k exactly when
\* (k - 10) mod 20 = 0, k is past the half of kmax and
\* | 1 - count now / count in the snapshot | < divergence, the snapshot being
\* taken in the rounds with k mod 20 = 0; otherwise it runs kmax rounds.
C16_StopsOnCurrentOverSnapshot ==
    /\ RoundRun =>
          (opt.stopped <=>
              (CheckRound /\ RatioWithin(NumVertices(heap[InputRef]),
                                         opt.num_vertices_1)))
    /\ EndsByCheckOrKmax

\* C16 (amended): the same with the ratio the other way round,
\* | 1 - count in the snapshot / count now | < divergence.
C16_StopsOnSnapshotOverCurrent ==
    /\ RoundRun =>
          (opt.stopped <=>
              (CheckRound /\ RatioWithin(opt.num_vertices_1,
                                         NumVertices(heap[InputRef]))))
    /\ EndsByCheckOrKmax

\* C16 witness: the call stopped in round 10 with a vertex count other than
\* the snapshot's, by the ratio of the snapshot to the count now, where the
\* ratio of the count now to the snapshot is not within the divergence.
C16_Witness ==
    /\ RoundRun /\ opt.stopped /\ Returned
    /\ LastK = 10 /\ opt.rounds < call.kmax
    /\ NumVertices(heap[InputRef]) # opt.num_vertices_1
    /\ RatioWithin(opt.num_vertices_1, NumVertices(heap[InputRef]))
    /\ ~RatioWithin(NumVertices(heap[InputRef]), opt.num_vertices_1)

\* Round 10 found the counts within the divergence and the call went on,
\* round 10 not being past the half of kmax.
C16_ConvergedTooEarly ==
    /\ RoundRun /\ ~opt.stopped
    /\ LastK = 10 /\ 2 * LastK <= call.kmax
    /\ RatioWithin(opt.num_vertices_1, NumVertices(heap[InputRef]))

\* Round 10, past the half of kmax, found the counts apart and the call
\* went on.
C16_NotConverged ==
    /\ RoundRun /\ ~opt.stopped
    /\ CheckRound
    /\ ~RatioWithin(opt.num_vertices_1, NumVertices(heap[InputRef]))

\* The phase of round k: split, collapse, swap, none, and again.
PhaseOfRound(k) ==
    CASE k % 4 = 0 -> "split"
      [] k % 4 = 1 -> "collapse"
      [] k % 4 = 2 -> "swap"
      [] OTHER -> "none"

\* C18: every round runs exactly one of the four phases, in a cycle: split
\* if and only if k mod 4 = 0, collapse iff k mod 4 = 1, swap iff
\* k mod 4 = 2, and no topology operation, the counter being reset, iff
\* k mod 4 = 3.
C18_PhaseByRound ==
    RoundRun =>
        /\ opt.phase = PhaseOfRound(LastK)
        /\ \A i \in 1..Len(opt.ops) : opt.ops[i][1] = PhaseOfRound(LastK)
        /\ LastK % 4 = 3 <=> opt.count = 0
        /\ LastK % 4 = 3 => opt.ops = <<>>

\* C18 witness: round 4, the first of the second cycle, was a split phase
\* that split an edge, after a round 3 without operation.
C18_Witness ==
    /\ RoundRun /\ LastK = 4
    /\ opt.phase = "split" /\ Len(opt.ops) > 0
    /\ opt.count = 1
    /\ opt.callbacks = RoundIndices(5)

\* The valencies of a weighed edge are the degrees, with 2 added for
\* exactly the vertices that are on the boundary of the mesh at the time.
BoundaryCorrected(t) ==
    \A i \in 1..4 :
        t.valency[i] = t.degree[i] + (IF t.on_boundary[i] THEN 2 ELSE 0)

\* C19 (as claimed): in every swap phase each of u, v, v1, v2 that is on the
\* boundary of the mesh at that time gets 2 added to its degree, and no
\* other vertex does, whatever smooth and the allow_boundary flags are.
C19_BoundaryCorrection == \A t \in SwapTests : BoundaryCorrected(t)

\* C19 witness: without smoothing, a swap phase weighed an edge with a
\* vertex that is on the boundary, made by a split of a boundary edge, and
\* took the bare degree of that vertex.
C19_Witness ==
    /\ OptCalled /\ ValidConfig(call) /\ ~call.smooth /\ opt.phase = "swap"
    /\ \E t \in SwapTests : \E i \in 1..4 :
           /\ t.on_boundary[i]
           /\ t.e[i] \notin DOMAIN orig.vertex
           /\ t.valency[i] = t.degree[i]

\* The call of the XFunc object is over.
XDone == xf # XIdle /\ xf.parent = "done"

\* C17 (as claimed): when the wrapped function raises in the external
\* process the call returns None, with the attributes data and profile None
\* and the traceback in error; otherwise it returns the function's result,
\* with error None.
C17_ReturnsNoneOnError ==
    XDone =>
        CASE call.outcome.kind = "raises" ->
                 /\ pc = "returned" /\ xf.returned = PyNone
                 /\ xf.data = PyNone /\ xf.profile = PyNone
                 /\ xf.error = PyStr("Traceback")
          [] call.outcome.kind = "returns" ->
                 /\ pc = "returned" /\ xf.returned = call.outcome.value
                 /\ xf.error = PyNone
          [] OTHER -> TRUE

\* C17 witness: the wrapped function raised; data and profile are None and
\* error is the traceback, and the call has raised an Exception instead of
\* returning None.
C17_Witness ==
    /\ XDone /\ call.outcome.kind = "raises"
    /\ xf.data = PyNone /\ xf.profile = PyNone /\ xf.error = PyStr("Traceback")
    /\ pc = "raised" /\ raised = "Exception"

\* The wrapped function returned a tuple and the call a list.
C17_TupleAsList ==
    /\ XDone /\ pc = "returned"
    /\ call.outcome.value.type = "tuple"
    /\ xf.returned.type = "list"

\* C20 (as claimed): with a callback, when the call is over the callback
\* has been called once for every line the process wrote, with that line,
\* in the order of the output, and for nothing else, however the writing,
\* the exit of the process and the parent's loop interleave.
C20_CallbackPerLine ==
    (XDone /\ call.callback) => xf.callbacks = call.script

\* C20 witness: the process wrote two lines and ended before the parent
\* polled; the loop body never ran and the callback was never called.
C20_Witness ==
    /\ XDone /\ call.callback
    /\ Len(call.script) = 2 /\ xf.written = 2
    /\ xf.callbacks = <<>>

\* The callback was called once more than lines were written, the last time
\* with the empty line that readline returns at the end of the output.
C20_CallForNoLine ==
    /\ XDone /\ call.callback
    /\ Len(xf.callbacks) = Len(call.script) + 1
    /\ xf.callbacks[Len(xf.callbacks)] = <<>>

\* A triangle mesh with an edge that has a face on one side only.
IsOpenTriMesh(m) ==
    /\ \E e \in DOMAIN m.halfedge : m.halfedge[e] = None
    /\ \A f \in DOMAIN m.face : Len(m.face[f]) = 3

\* The edges of the mesh with a face on one side only.
BoundaryEdges(m) == {e \in DOMAIN m.halfedge : m.halfedge[e] = None}

\* A call of Loop with one level or more on an open triangle mesh is over.
LoopOnOpenMesh ==
    /\ pc \in {"returned", "raised"}
    /\ call.invoked = "trimesh_subdivide_loop"
    /\ call.k >= 1
    /\ IsOpenTriMesh(orig)

\* C21 (as claimed): Loop with k >= 1 on a triangle mesh with boundary edges
\* returns a refined mesh and raises nothing, and after one level the vertex
\* put on a boundary edge is where split_edge puts it, halfway between the
\* ends of the edge.
C21_LoopOnBoundaryReturns ==
    LoopOnOpenMesh =>
        /\ Returned /\ raised = NoExc
        /\ NumFaces(Result) > NumFaces(orig)
        /\ call.k = 1 =>
              \A e \in BoundaryEdges(orig) :
                  \E w \in (DOMAIN Result.vertex) \ (DOMAIN orig.vertex) :
                      /\ <<e[1], w>> \in DOMAIN Result.halfedge
                      /\ <<w, e[2]>> \in DOMAIN Result.halfedge
                      /\ Result.vertex[w] = edge_midpoint(Result, e[1], e[2])

\* C21 witness: Loop with one level on an open triangle mesh has raised
\* KeyError, from subd.face[None] for a half-edge without a face, and there
\* is no result; the caller's mesh is as it was.
C21_Witness ==
    /\ LoopOnOpenMesh /\ call.k = 1
    /\ pc = "raised" /\ raised = "KeyError"
    /\ result = None
    /\ heap[InputRef] = orig
    /\ uv_w_raises(orig)

====
